---- MODULE Spec2Model ----
(***************************************************************************)
(* Model of static/js/main.js, the browser-side script of FoodChain        *)
(* Tracker: theme toggle, floating notification, form guard and debounced  *)
(* search.  Strings the script inspects character by character (field      *)
(* values, search queries) are sequences of one-character strings.         *)
(***************************************************************************)
EXTENDS Integers, Sequences, FiniteSets, TLC

VARIABLES
    phase,       \* "loading" before DOMContentLoaded, then "ready"; "navigated" after a default form submission
    page,        \* the static document: which elements the markup contains
    stored,      \* localStorage 'theme': "none" (no key), "light" or "dark"
    bodyTheme,   \* body[data-theme]: "unset", "light" or "dark"
    themeIcon,   \* className of #themeIcon
    listeners,   \* listeners registered by the two DOMContentLoaded handlers
    notif,       \* .floating-notification nodes, notificationTimeout and the pending auto-dismiss timers
    prefLog,     \* history: the persisted preference after init and after each run of the toggle handler
    lastEv,      \* history: the event handled last and what its handler did
    form,        \* the static markup of the form on the page
    value,       \* field -> current value
    invalid,     \* fields carrying class is-invalid
    valid,       \* fields carrying class is-valid
    errs,        \* container -> the .invalid-feedback children, in document order
    button,      \* the submit button: innerHTML, disabled, dataset.originalText
    advRequests, \* requests to /api/advanced-search in flight
    now,         \* clock of the search model, in ms
    search,      \* the search input: value, searchTimeout, pending debounce timers
    searchReqs,  \* requests to /api/search in flight
    results,     \* content of #search-results
    searchLog,   \* history: the input events on the search input and the runs of its debounced callback
    env,         \* what the browser and the markup provide: pathname, polled elements, clipboard, geolocation
    poll,        \* setInterval timers, refreshInterval and the polling requests in flight
    dash,        \* dashboard nodes: the [data-stat] counter, its running tweens, .activity-timeline
    product,     \* product page nodes: [data-temperature], [data-humidity], [data-status]
    acts,        \* requests of user-initiated actions in flight
    clip,        \* the copy button, its restore timers and the textareas appended to the body
    exp,         \* the array handed to exportToCSV and the downloads triggered
    modal,       \* the .modal-body of the page's modal and the content requests in flight
    thr,         \* a function made by throttle(func, limit): its closure, clock and call history
    deb          \* a function made by debounce(func, wait): its closure, clock and call history

themeVars  == <<stored, bodyTheme, themeIcon, prefLog>>
staticVars == <<page, form>>
formVars   == <<value, invalid, valid, errs, button, advRequests>>
searchVars == <<now, search, searchReqs, results, searchLog>>
pollVars   == <<dash, product>>
actionVars == <<acts, clip, exp>>
utilVars   == <<thr, deb>>
bgVars     == <<env, poll, pollVars, actionVars>>
vars == <<phase, page, stored, bodyTheme, themeIcon, listeners, notif, prefLog,
          lastEv, form, value, invalid, valid, errs, button, advRequests,
          now, search, searchReqs, results, searchLog,
          env, poll, dash, product, acts, clip, exp, modal, thr, deb>>

(***************************************************************************)
(* Bounds                                                                  *)
(***************************************************************************)
MaxNotifs  == 3    \* showNotification calls per behaviour
MaxToggles == 3    \* theme toggle clicks per behaviour
MaxStack   == 2    \* no validation event once a container holds this many messages
MaxInFlight == 1   \* no submit while this many advanced-search requests are in flight
MaxInputs  == 3    \* input events on the search input per behaviour
MaxTicks   == 6    \* a model clock (search, throttle, debounce) stops after this many steps
MaxPolls   == 2    \* callbacks of the polling interval timers per behaviour
MaxTweenTicks == 22  \* callbacks of one tween's interval timer
MaxAlerts  == 2    \* alerts in one fraud-alert response
MaxActions == 2    \* user-initiated actions started per behaviour
MaxRows    == 2    \* rows of an exported array
MaxExports == 1    \* exportToCSV calls per behaviour
MaxModalLoads == 2    \* modal content loads per behaviour
MaxCalls == 3         \* calls of a throttled or debounced function per behaviour
MaxListeners == 2     \* click listeners on #themeToggle

(***************************************************************************)
(* Sequence helpers                                                        *)
(***************************************************************************)
Last(s) == s[Len(s)]

RemoveAt(s, i) == SubSeq(s, 1, i - 1) \o SubSeq(s, i + 1, Len(s))

(***************************************************************************)
(* Theme toggle                                                            *)
(***************************************************************************)
\* localStorage.getItem('theme') || 'light'
GetTheme(st) == IF st = "none" THEN "light" ELSE st

\* the theme initializeThemeToggle applies for a saved preference
AppliedTheme(currentTheme) == IF currentTheme = "dark" THEN "dark" ELSE "light"

\* updateThemeToggleUI(isDark): the icon's class
IconFor(isDark) == IF isDark THEN "fas fa-sun" ELSE "fas fa-moon"

ThemeMessage(t) == IF t = "light" THEN "Light theme activated" ELSE "Dark theme activated"

StuckTheme(cur) == "dark"

\* the click handler's branch: a dark body becomes light, anything else dark
ToggledTheme(cur) == IF cur = "dark" THEN "light" ELSE "dark"

(***************************************************************************)
(* Floating notification                                                   *)
(***************************************************************************)
NotifTypes == {"success", "danger", "warning", "info"}

\* What a look-up in an object literal finds for a key the literal does not
\* define: the properties inherited from Object.prototype, functions and,
\* for __proto__, the prototype object.  All of them are truthy; the text is
\* what a template literal makes of them.
ObjectPrototype ==
    [constructor          |-> "function Object() { [native code] }",
     toString             |-> "function toString() { [native code] }",
     valueOf              |-> "function valueOf() { [native code] }",
     hasOwnProperty       |-> "function hasOwnProperty() { [native code] }",
     isPrototypeOf        |-> "function isPrototypeOf() { [native code] }",
     propertyIsEnumerable |-> "function propertyIsEnumerable() { [native code] }",
     toLocaleString       |-> "function toLocaleString() { [native code] }",
     __defineGetter__     |-> "function __defineGetter__() { [native code] }",
     __defineSetter__     |-> "function __defineSetter__() { [native code] }",
     __lookupGetter__     |-> "function __lookupGetter__() { [native code] }",
     __lookupSetter__     |-> "function __lookupSetter__() { [native code] }",
     __proto__            |-> "[object Object]"]

Icons == [success |-> "check-circle", danger |-> "exclamation-triangle",
          warning |-> "exclamation-circle", info |-> "info-circle"]

\* getNotificationIcon(type): icons[type] || icons.info, as the template
\* literal of showNotification renders it
getNotificationIcon(type) ==
    IF type \in DOMAIN Icons THEN Icons[type]
    ELSE IF type \in DOMAIN ObjectPrototype THEN ObjectPrototype[type]
    ELSE Icons.info

NoNotif == [banners |-> <<>>, notificationTimeout |-> 0, timers |-> {}, nextId |-> 1]

KeepTimers(timers, id) == timers

\* clearTimeout(id): a no-op for an id that is not pending
ClearTimeout(timers, id) == {t \in timers : t.id # id}

\* document.querySelector('.floating-notification') then remove(): the first one
RemoveFirstBanner(banners) == IF banners = <<>> THEN banners ELSE Tail(banners)

\* showNotification without the clearTimeout of the pending timer
showNotificationNoClear(n, message, type, duration) ==
    [banners |-> Append(RemoveFirstBanner(n.banners),
                        [id |-> n.nextId, message |-> message, type |-> type,
                         icon |-> getNotificationIcon(type)]),
     notificationTimeout |-> n.nextId,
     timers |-> n.timers \cup {[id |-> n.nextId, banner |-> n.nextId, duration |-> duration]},
     nextId |-> n.nextId + 1]

showNotificationKeep(n, message, type, duration) ==
    [banners |-> Append(n.banners,
                        [id |-> n.nextId, message |-> message, type |-> type,
                         icon |-> getNotificationIcon(type)]),
     notificationTimeout |-> n.nextId,
     timers |-> ClearTimeout(n.timers, n.notificationTimeout)
                  \cup {[id |-> n.nextId, banner |-> n.nextId, duration |-> duration]},
     nextId |-> n.nextId + 1]

showNotification(n, message, type, duration) ==
    LET cleared == IF n.notificationTimeout # 0
                   THEN ClearTimeout(n.timers, n.notificationTimeout)
                   ELSE n.timers
        kept    == RemoveFirstBanner(n.banners)
        node    == [id |-> n.nextId, message |-> message, type |-> type,
                    icon |-> getNotificationIcon(type)]
    IN  [banners |-> Append(kept, node),
         notificationTimeout |-> n.nextId,
         timers |-> cleared \cup {[id |-> n.nextId, banner |-> n.nextId, duration |-> duration]},
         nextId |-> n.nextId + 1]

\* showThemeNotification with showNotification's default duration
showThemeNotificationDefault(n, message) == showNotification(n, message, "info", 5000)

\* showThemeNotification: showNotification is always a function here
showThemeNotification(n, message) == showNotification(n, message, "info", 2000)

\* one run of the click listener initializeThemeToggle registers, on the
\* theme state st: body attribute, storage, icon, notification, and the
\* history fields log (the preference after each run) and from (the body
\* attribute the run found)
onThemeToggleClick(st) ==
    LET t == ToggledTheme(st.body)
    IN  [body   |-> t,
         stored |-> t,
         icon   |-> IconFor(t = "dark"),
         notif  |-> showThemeNotification(st.notif, ThemeMessage(t)),
         log    |-> Append(st.log, GetTheme(t)),
         from   |-> st.body]

\* a click event runs the n listeners of #themeToggle one after the other
RECURSIVE DispatchClick(_, _)
DispatchClick(st, n) ==
    IF n = 0 THEN st ELSE DispatchClick(onThemeToggleClick(st), n - 1)

(***************************************************************************)
(* Strings and numbers                                                     *)
(***************************************************************************)
\* the white space of String.prototype.trim, of parseFloat and of the regex
\* class \s: space, tab, line feed, carriage return, form feed, vertical
\* tab, no-break space (and the characters beyond Latin-1 of the same
\* class, which the values of this model do not contain)
WhiteSpace == {" ", "\t", "\n", "\r", "\f", "", " "}

IsSpace(c) == c \in WhiteSpace

RECURSIVE TrimStart(_)
TrimStart(s) == IF s # <<>> /\ IsSpace(Head(s)) THEN TrimStart(Tail(s)) ELSE s

RECURSIVE TrimEnd(_)
TrimEnd(s) == IF s # <<>> /\ IsSpace(Last(s)) THEN TrimEnd(SubSeq(s, 1, Len(s) - 1)) ELSE s

\* String.prototype.trim
Trim(s) == TrimEnd(TrimStart(s))

Digits == <<"0", "1", "2", "3", "4", "5", "6", "7", "8", "9">>

IsDigit(c) == \E d \in 1..10 : Digits[d] = c

DigitValue(c) == (CHOOSE d \in 1..10 : Digits[d] = c) - 1

RECURSIVE DigitsPrefix(_)
DigitsPrefix(s) ==
    IF s # <<>> /\ IsDigit(Head(s)) THEN <<Head(s)>> \o DigitsPrefix(Tail(s)) ELSE <<>>

RECURSIVE DigitsValue(_)
DigitsValue(ds) ==
    IF ds = <<>> THEN 0 ELSE 10 * DigitsValue(SubSeq(ds, 1, Len(ds) - 1)) + DigitValue(Last(ds))

\* a number: NaN, an infinity (inf is its sign) or the integer v
NaN == [nan |-> TRUE, inf |-> 0, v |-> 0]

Num(n) == [nan |-> FALSE, inf |-> 0, v |-> n]

Infinity(sign) == [nan |-> FALSE, inf |-> sign, v |-> 0]

InfinityText == <<"I", "n", "f", "i", "n", "i", "t", "y">>

IsPrefix(p, s) == Len(s) >= Len(p) /\ \A k \in 1..Len(p) : s[k] = p[k]

\* the number the text after the sign starts with: the word Infinity or the
\* longest run of digits; NaN when neither is there
ParseUnsigned(body, sign) ==
    IF IsPrefix(InfinityText, body) THEN Infinity(sign)
    ELSE IF DigitsPrefix(body) = <<>> THEN NaN
    ELSE Num(sign * DigitsValue(DigitsPrefix(body)))

\* parseFloat on strings without a fraction or exponent: leading white space
\* is skipped, then an optional sign and a number; NaN for the empty string
\* and a missing attribute
parseFloat(s) ==
    LET t == TrimStart(s)
    IN  IF t # <<>> /\ Head(t) \in {"-", "+"}
        THEN ParseUnsigned(Tail(t), IF Head(t) = "-" THEN -1 ELSE 1)
        ELSE ParseUnsigned(t, 1)

isNaN(x) == x.nan

\* a < b and a > b on numbers: false as soon as one side is NaN
Less(a, b) ==
    /\ ~a.nan /\ ~b.nan
    /\ a.inf < b.inf \/ (a.inf = 0 /\ b.inf = 0 /\ a.v < b.v)

Greater(a, b) == Less(b, a)

RECURSIVE NatToString(_)
NatToString(n) ==
    IF n < 10 THEN <<Digits[n + 1]>> ELSE NatToString(n \div 10) \o <<Digits[(n % 10) + 1]>>

\* `${x}` for NaN, an infinity or an integer-valued number
NumberToString(x) ==
    IF x.nan THEN <<"N", "a", "N">>
    ELSE IF x.inf # 0 THEN (IF x.inf < 0 THEN <<"-">> ELSE <<>>) \o InfinityText
    ELSE IF x.v < 0 THEN <<"-">> \o NatToString(0 - x.v) ELSE NatToString(x.v)

\* the character class [^\s@]
NotSpaceOrAt(c) == ~IsSpace(c) /\ c # "@"

\* [^\s@]+ matching the whole of s
ClassPlus(s) == s # <<>> /\ \A k \in 1..Len(s) : NotSpaceOrAt(s[k])

\* /^[^\s@]+@[^\s@]+\.[^\s@]+$/.test(email)
isValidEmail(email) ==
    \E i \in 1..Len(email), j \in 1..Len(email) :
        /\ i < j
        /\ email[i] = "@"
        /\ email[j] = "."
        /\ ClassPlus(SubSeq(email, 1, i - 1))
        /\ ClassPlus(SubSeq(email, i + 1, j - 1))
        /\ ClassPlus(SubSeq(email, j + 1, Len(email)))

(***************************************************************************)
(* Form guard                                                              *)
(***************************************************************************)
Fields == {1, 2}                 \* the form's fields, in document order

FieldOrder == <<1, 2>>           \* querySelectorAll returns document order

Containers == {"form", "w1", "w2"}   \* the form element and two wrapper divs inside it

\* where the two fields sit: both in one wrapper, each in its own wrapper,
\* or one in a wrapper and the other directly in the form
Layouts == {<<"w1", "w1">>, <<"w1", "w2">>, <<"form", "w1">>, <<"w1", "form">>}

FieldKinds ==
    { [type |-> "text",     name |-> "product",          min |-> <<>>,    max |-> <<>>],
      [type |-> "email",    name |-> "email",            min |-> <<>>,    max |-> <<>>],
      [type |-> "number",   name |-> "quantity",         min |-> <<"5">>, max |-> <<"7">>],
      [type |-> "number",   name |-> "weight",           min |-> InfinityText, max |-> <<>>],
      [type |-> "password", name |-> "password",         min |-> <<>>,    max |-> <<>>],
      [type |-> "password", name |-> "confirm_password", min |-> <<>>,    max |-> <<>>] }

ValuesOf(type) ==
    CASE type = "text"     -> {<<>>, <<" ">>, <<"x">>}
      [] type = "email"    -> {<<>>, <<"a", "b", "c">>, <<"a", "@", "b", ".", "c">>}
      [] type = "number"   -> {<<>>, <<"4">>, <<"5">>, <<"8">>}
      [] type = "password" -> {<<>>, <<"p">>, <<"q">>}

MakeField(kind, required, parent) ==
    [type |-> kind.type, name |-> kind.name, min |-> kind.min, max |-> kind.max,
     required |-> required, parent |-> parent]

TextKind == [type |-> "text", name |-> "product", min |-> <<>>, max |-> <<>>]

SubmitKinds == {<<"advanced-search-form", TRUE>>, <<"product-form", TRUE>>,
                <<"product-form", FALSE>>}     \* form id, has a submit button

FormChoices ==
    SubmitKinds \X FieldKinds \X FieldKinds \X BOOLEAN \X BOOLEAN \X Layouts

\* The forms analysed.  Around a form of two text fields in separate wrappers
\* with a submit button and no other submit listener, the submit handling,
\* the kinds of the two fields and the layout vary one at a time; a password
\* with its confirmation takes every layout.
Analysed(c) ==
    LET plainSubmit == c[1] = <<"product-form", TRUE>>
        plainKinds  == c[2] = TextKind /\ c[3] = TextKind
        plainLayout == c[6] = <<"w1", "w2">>
        pair        == {c[2].name, c[3].name} = {"password", "confirm_password"}
    IN  /\ plainSubmit \/ (plainKinds /\ plainLayout)
        /\ plainLayout \/ plainKinds \/ pair

FormConfigs ==
    { [id |-> c[1][1], hasButton |-> c[1][2],
       fields |-> <<MakeField(c[2], c[4], c[6][1]), MakeField(c[3], c[5], c[6][2])>>] :
        c \in {x \in FormChoices : Analysed(x)} }

Msg(text, arg) == [text |-> text, arg |-> arg]

RequiredMsg == Msg("This field is required", <<>>)
EmailMsg    == Msg("Please enter a valid email address", <<>>)
MismatchMsg == Msg("Passwords do not match", <<>>)
MinMsg(min) == Msg("Value must be at least ", NumberToString(min))
MaxMsg(max) == Msg("Value must be no more than ", NumberToString(max))

\* the container holding the first .invalid-feedback among the descendants of
\* p, in document order: the wrappers come before the nodes appended to the
\* form itself; "none" when there is no such node
FirstFeedbackIn(e, p) ==
    IF p = "form"
    THEN IF e["w1"] # <<>> THEN "w1"
         ELSE IF e["w2"] # <<>> THEN "w2"
         ELSE IF e["form"] # <<>> THEN "form" ELSE "none"
    ELSE IF e[p] # <<>> THEN p ELSE "none"

ParentOf(f) == form.fields[f].parent

\* clearFieldError(field), on d = [invalid, valid, errs]
clearFieldError(d, f) ==
    LET c == FirstFeedbackIn(d.errs, ParentOf(f))
    IN  [d EXCEPT !.invalid = @ \ {f},
                  !.errs = IF c = "none" THEN @ ELSE [@ EXCEPT ![c] = Tail(@)]]

\* showFieldError(field, message)
showFieldError(d, f, message) ==
    LET d1 == clearFieldError(d, f)
    IN  [d1 EXCEPT !.invalid = @ \cup {f},
                   !.errs = [@ EXCEPT ![ParentOf(f)] = Append(@, message)]]

\* the body of validateForm's requiredFields.forEach for one field;
\* r = [d, isValid]
ValidateRequiredField(r, f) ==
    LET fld == form.fields[f]
        val == value[f]
    IN  IF Trim(val) = <<>>
        THEN [d |-> showFieldError(r.d, f, RequiredMsg), isValid |-> FALSE]
        ELSE
          LET r0 == [d |-> clearFieldError(r.d, f), isValid |-> r.isValid]
              r1 == IF fld.type = "email" /\ ~isValidEmail(val)
                    THEN [d |-> showFieldError(r0.d, f, EmailMsg), isValid |-> FALSE]
                    ELSE r0
              min == parseFloat(fld.min)
              max == parseFloat(fld.max)
              v   == parseFloat(val)
              r2  == IF fld.type = "number" /\ ~isNaN(min) /\ Less(v, min)
                     THEN [d |-> showFieldError(r1.d, f, MinMsg(min)), isValid |-> FALSE]
                     ELSE r1
              r3  == IF fld.type = "number" /\ ~isNaN(max) /\ Greater(v, max)
                     THEN [d |-> showFieldError(r2.d, f, MaxMsg(max)), isValid |-> FALSE]
                     ELSE r2
          IN  r3

RECURSIVE ForEachRequired(_, _)
ForEachRequired(r, fs) ==
    IF fs = <<>> THEN r
    ELSE ForEachRequired(IF form.fields[Head(fs)].required
                         THEN ValidateRequiredField(r, Head(fs)) ELSE r,
                         Tail(fs))

\* form.querySelector('input[name="..."]'): the first such field, 0 for null
QueryByName(name) ==
    IF \E f \in Fields : form.fields[f].name = name
    THEN CHOOSE f \in Fields : /\ form.fields[f].name = name
                               /\ \A g \in Fields : form.fields[g].name = name => f <= g
    ELSE 0

validateFormNoConfirm(d) == ForEachRequired([d |-> d, isValid |-> TRUE], FieldOrder)

\* validateForm(form): the DOM it leaves and the value it returns
validateForm(d) ==
    LET r  == ForEachRequired([d |-> d, isValid |-> TRUE], FieldOrder)
        pw == QueryByName("password")
        cp == QueryByName("confirm_password")
    IN  IF pw # 0 /\ cp # 0 /\ value[pw] # value[cp]
        THEN [d |-> showFieldError(r.d, cp, MismatchMsg), isValid |-> FALSE]
        ELSE r

\* validateField(field), the blur and input validator: [d, ok]
validateField(d, f, fieldValue) ==
    LET fld == form.fields[f]
        val == Trim(fieldValue)
        d0  == clearFieldError(d, f)
        min == parseFloat(fld.min)
        max == parseFloat(fld.max)
        v   == parseFloat(val)
    IN  IF fld.required /\ val = <<>>
        THEN [d |-> showFieldError(d0, f, RequiredMsg), ok |-> FALSE]
        ELSE IF fld.type = "email" /\ val # <<>> /\ ~isValidEmail(val)
        THEN [d |-> showFieldError(d0, f, EmailMsg), ok |-> FALSE]
        ELSE IF fld.type = "number" /\ val # <<>> /\ ~isNaN(min) /\ Less(v, min)
        THEN [d |-> showFieldError(d0, f, MinMsg(min)), ok |-> FALSE]
        ELSE IF fld.type = "number" /\ val # <<>> /\ ~isNaN(max) /\ Greater(v, max)
        THEN [d |-> showFieldError(d0, f, MaxMsg(max)), ok |-> FALSE]
        ELSE [d |-> [d0 EXCEPT !.valid = @ \cup {f}], ok |-> TRUE]

ButtonLabel == "Save"

LoadingHTML == "<span class=\"loading-spinner me-2\"></span>Processing..."

InitialButton == [innerHTML |-> ButtonLabel, disabled |-> FALSE, originalText |-> "none"]

\* addLoadingState(button)
addLoadingState(b) ==
    [innerHTML |-> LoadingHTML, disabled |-> TRUE, originalText |-> b.innerHTML]

\* removeLoadingState(button)
removeLoadingState(b) ==
    IF b.originalText # "none"
    THEN [innerHTML |-> b.originalText, disabled |-> FALSE, originalText |-> "none"]
    ELSE b

\* the entries kept when the test is on the value as typed, not trimmed
SearchParamsUntrimmed ==
    LET Keep(f) == value[f] # <<>>
        Entry(f) == <<form.fields[f].name, value[f]>>
    IN  (IF Keep(1) THEN <<Entry(1)>> ELSE <<>>) \o (IF Keep(2) THEN <<Entry(2)>> ELSE <<>>)

\* the entries of new FormData(form) that setupAdvancedSearch keeps
SearchParams ==
    LET Keep(f) == Trim(value[f]) # <<>>
        Entry(f) == <<form.fields[f].name, value[f]>>
    IN  (IF Keep(1) THEN <<Entry(1)>> ELSE <<>>) \o (IF Keep(2) THEN <<Entry(2)>> ELSE <<>>)

\* one submit listener applied to the state of the dispatch,
\* s = [d, button, prevented, requests, returns]
RunSubmitListener(s, l) ==
    IF l = "formGuard"
    THEN LET r == validateForm(s.d)
         IN  IF ~r.isValid
             THEN [s EXCEPT !.d = r.d, !.prevented = TRUE,
                            !.returns = Append(@, FALSE)]
             ELSE [s EXCEPT !.d = r.d, !.returns = Append(@, TRUE),
                            !.button = IF form.hasButton THEN addLoadingState(@) ELSE @]
    ELSE [s EXCEPT !.prevented = TRUE, !.requests = Append(@, SearchParams)]

RECURSIVE DispatchSubmit(_, _)
DispatchSubmit(s, ls) ==
    IF ls = <<>> THEN s ELSE DispatchSubmit(RunSubmitListener(s, Head(ls)), Tail(ls))


(***************************************************************************)
(* Search                                                                  *)
(***************************************************************************)
DebounceMs == 300

SearchValues == {<<>>, <<"a">>, <<"a", "b">>, <<" ", "a", " ">>}

NoSearch == [value |-> <<>>, searchTimeout |-> 0, timers |-> {}, nextId |-> 1]

\* the input listener: clearTimeout(searchTimeout); searchTimeout = setTimeout(..., 300)
ArmDebounce(s, v, t) ==
    [value |-> v,
     searchTimeout |-> s.nextId,
     timers |-> ClearTimeout(s.timers, s.searchTimeout)
                  \cup {[id |-> s.nextId, deadline |-> t + DebounceMs]},
     nextId |-> s.nextId + 1]

\* a displaySearchResults that drops the response of any query but the typed one
displayIfCurrent(res, n, of) ==
    IF ~page.hasResults \/ of # Trim(search.value) THEN res
    ELSE IF n = 0 THEN [html |-> "No results found.", n |-> 0, of |-> of]
    ELSE [html |-> "list-group", n |-> n, of |-> of]

\* displaySearchResults(results) on the content of #search-results; the
\* rendered list is tagged with the request it answers
displaySearchResults(res, n, of) ==
    IF ~page.hasResults THEN res
    ELSE IF n = 0 THEN [html |-> "No results found.", n |-> 0, of |-> of]
    ELSE [html |-> "list-group", n |-> n, of |-> of]

\* clearSearchResults without the assignment to innerHTML
KeepSearchResults(res) == res

\* clearSearchResults()
clearSearchResults(res) ==
    IF page.hasResults THEN [html |-> "", n |-> 0, of |-> <<>>] ELSE res

InitialResults == [html |-> "initial", n |-> 0, of |-> <<>>]

(***************************************************************************)
(* Polling refreshers                                                      *)
(***************************************************************************)
\* window.location.pathname is kept as the set of the markers it contains
PathMarkers == {"/dashboard", "/analytics", "/products/"}

\* window.location.pathname.includes(part)
PathIncludes(part) == part \in env.path

\* no path marker, no polled element, both browser APIs
DefaultEnv == [path |-> {}, nodes |-> {}, apis |-> {"clipboard", "geolocation"}]

NoPoll == [intervals |-> {}, refreshInterval |-> 0, nextId |-> 1, requests |-> <<>>,
           fired |-> 0, called |-> 0, rejected |-> 0]

\* setInterval(fn, ms) on p; the handle is p.nextId
SetInterval(p, fn, ms) ==
    [p EXCEPT !.intervals = @ \cup {[id |-> p.nextId, fn |-> fn, ms |-> ms]},
              !.nextId = @ + 1]

\* a setupRealtimeUpdates that polls on every page
setupRealtimeUpdatesAlways(p) == SetInterval(p, "updateProductStatus", 60000)

setupRealtimeUpdates(p) ==
    IF PathIncludes("/products/") THEN SetInterval(p, "updateProductStatus", 60000) ELSE p

startAutoRefresh(p) ==
    IF PathIncludes("/dashboard")
    THEN [SetInterval(p, "refreshDashboardData", 30000) EXCEPT !.refreshInterval = p.nextId]
    ELSE p

setupNotifications(p) ==
    IF PathIncludes("/analytics") THEN SetInterval(p, "checkFraudAlerts", 60000) ELSE p

\* the interval timers of initializeApp, in the order of the calls:
\* setupEventListeners (setupRealtimeUpdates), startAutoRefresh, setupNotifications
StartIntervals(p) == setupNotifications(startAutoRefresh(setupRealtimeUpdates(p)))

\* the beforeunload listener, on the interval timers
ClearRefreshInterval(p) ==
    IF p.refreshInterval # 0
    THEN [p EXCEPT !.intervals = {t \in @ : t.id # p.refreshInterval}]
    ELSE p

\* the beforeunload listener, on the auto-dismiss timer
ClearNotificationTimeout(n) ==
    IF n.notificationTimeout # 0
    THEN [n EXCEPT !.timers = ClearTimeout(@, n.notificationTimeout)]
    ELSE n

Fetch(p, url) == [p EXCEPT !.requests = Append(@, url)]

\* a refresh that asks for the statistics only
refreshStatsOnly(p) == Fetch(p, "quick_stats")

refreshDashboardData(p) == Fetch(Fetch(p, "quick_stats"), "recent_activities")

checkFraudAlerts(p) == Fetch(p, "fraud_alerts")

\* updateProductStatus: fetches only when a [data-product-id] element exists
updateProductStatus(p) == IF "productId" \in env.nodes THEN Fetch(p, "track") ELSE p

RunInterval(p, fn) ==
    CASE fn = "refreshDashboardData" -> refreshDashboardData(p)
      [] fn = "checkFraudAlerts"     -> checkFraudAlerts(p)
      [] fn = "updateProductStatus"  -> updateProductStatus(p)

\* the catch handlers of the polling fetches, on the notification state:
\* console.error only.  The first definition is the variant that reports the
\* failure to the user.
CatchPollErrorNotify(n) == showNotification(n, "Error refreshing data", "danger", 5000)

CatchPollError(n) == n

(***************************************************************************)
(* Dashboard counters                                                      *)
(***************************************************************************)
TweenSteps == 20    \* animateNumber divides the distance into 20 increments

TweenMs == 50       \* period of the tween's interval timer

Targets == {0, 5}

\* the numbers a [data-stat] element shows when the page is served
Counters == {0, 3, 5}

\* a stats response: Object.keys order of the keys with their values; only
\* [data-stat="products"] can exist in the document
StatPatches ==
    {<<>>, <<[key |-> "alerts", value |-> 5]>>}
        \cup {<<[key |-> "products", value |-> t]>> : t \in Targets}
        \cup {<<[key |-> "alerts", value |-> 5], [key |-> "products", value |-> t]>> : t \in Targets}

\* applied records the targets of the animateNumber calls on the counter, in order
NoDash == [counter |-> 0, tweens |-> <<>>, applied |-> <<>>,
           activities |-> [html |-> "initial", n |-> 0]]

\* animateNumber(element, newValue).  The counter shows an integer, so
\* parseInt(element.textContent) || 0 is that integer.  A tween keeps
\* currentValue (from), newValue (target) and the number k of callbacks run;
\* current is from + k * (target - from) / 20.
animateNumber(d, newValue) ==
    [d EXCEPT !.tweens = Append(@, [from |-> d.counter, target |-> newValue, k |-> 0,
                                    ms |-> TweenMs, n |-> Len(d.applied) + 1]),
              !.applied = Append(@, newValue)]

\* current += increment is a sum of IEEE-754 doubles: after k additions of
\* (target - from) / 20 it can lie just below or just above the exact value
\* from + k * (target - from) / 20.  This shows only where the exact value is
\* an integer, in Math.floor and in the comparison with newValue.  The two
\* sets list the triples <<from, target, k>>, k in 1..20, where the double
\* lies below resp. above an integer exact value, for integers from and
\* target in -3..7 (the values double addition gives; other pairs are
\* outside this model).
DriftBelow ==
    {
      <<-3, -2, 20>>, <<-3, 0, 20>>, <<-3, 3, 10>>, <<-3, 3, 20>>, <<-3, 5, 5>>, <<-3, 5, 10>>,
      <<-3, 5, 15>>, <<-2, 1, 20>>, <<-2, 2, 5>>, <<-2, 2, 10>>, <<-2, 2, 15>>, <<-2, 2, 20>>,
      <<-2, 4, 20>>, <<-2, 6, 5>>, <<-2, 6, 15>>, <<-1, -3, 10>>, <<-1, -3, 20>>, <<-1, -2, 20>>,
      <<-1, 1, 10>>, <<-1, 1, 20>>, <<-1, 2, 20>>, <<-1, 3, 5>>, <<-1, 3, 15>>, <<-1, 5, 20>>,
      <<-1, 6, 20>>, <<-1, 7, 10>>, <<0, -2, 20>>, <<0, -1, 20>>, <<0, 2, 10>>, <<0, 3, 20>>,
      <<0, 4, 10>>, <<0, 6, 10>>, <<0, 6, 20>>, <<0, 7, 20>>, <<1, -3, 20>>, <<1, 0, 20>>,
      <<1, 4, 20>>, <<1, 5, 5>>, <<1, 7, 10>>, <<1, 7, 20>>, <<2, 0, 10>>, <<2, 0, 20>>,
      <<2, 1, 20>>, <<2, 3, 20>>, <<3, -1, 5>>, <<3, -1, 10>>, <<3, -1, 15>>, <<3, -1, 20>>,
      <<3, 1, 10>>, <<3, 1, 20>>, <<3, 4, 20>>, <<3, 5, 20>>, <<4, -3, 20>>, <<4, 0, 5>>,
      <<4, 0, 10>>, <<4, 0, 15>>, <<4, 0, 20>>, <<4, 2, 10>>, <<4, 2, 20>>, <<4, 5, 20>>,
      <<4, 6, 10>>, <<4, 6, 20>>, <<5, -3, 5>>, <<5, -3, 10>>, <<5, -3, 15>>, <<5, 1, 5>>,
      <<5, 1, 10>>, <<5, 1, 15>>, <<5, 1, 20>>, <<5, 2, 20>>, <<5, 6, 20>>, <<5, 7, 10>>,
      <<5, 7, 20>>, <<6, -3, 20>>, <<6, -2, 5>>, <<6, -2, 10>>, <<6, -2, 15>>, <<6, -2, 20>>,
      <<6, 2, 5>>, <<6, 2, 10>>, <<6, 2, 15>>, <<6, 2, 20>>, <<6, 3, 20>>, <<6, 7, 20>>,
      <<7, -2, 20>>, <<7, -1, 5>>, <<7, -1, 10>>, <<7, -1, 15>>, <<7, -1, 20>>, <<7, 3, 5>>,
      <<7, 3, 10>>, <<7, 3, 15>>, <<7, 3, 20>>, <<7, 4, 20>> }

DriftAbove ==
    {
      <<-3, -1, 10>>, <<-3, -1, 20>>, <<-3, 1, 5>>, <<-3, 1, 10>>, <<-3, 1, 15>>, <<-3, 1, 20>>,
      <<-3, 4, 20>>, <<-3, 6, 20>>, <<-2, -3, 20>>, <<-2, -1, 20>>, <<-2, 0, 10>>, <<-2, 0, 20>>,
      <<-2, 4, 10>>, <<-2, 6, 20>>, <<-2, 7, 20>>, <<-1, 0, 20>>, <<-1, 3, 20>>, <<-1, 7, 20>>,
      <<0, -3, 20>>, <<0, -2, 10>>, <<0, 1, 20>>, <<0, 2, 20>>, <<0, 4, 15>>, <<0, 4, 20>>,
      <<1, -3, 5>>, <<1, -3, 15>>, <<1, -2, 20>>, <<1, -1, 10>>, <<1, -1, 20>>, <<1, 2, 20>>,
      <<1, 3, 10>>, <<1, 3, 20>>, <<1, 5, 10>>, <<1, 5, 15>>, <<1, 5, 20>>, <<2, -2, 5>>,
      <<2, -2, 10>>, <<2, -2, 15>>, <<2, -2, 20>>, <<2, -1, 20>>, <<2, 4, 10>>, <<2, 4, 20>>,
      <<2, 5, 20>>, <<2, 6, 5>>, <<2, 6, 10>>, <<2, 6, 15>>, <<2, 6, 20>>, <<3, -3, 10>>,
      <<3, -3, 20>>, <<3, 0, 20>>, <<3, 2, 20>>, <<3, 5, 10>>, <<3, 6, 20>>, <<3, 7, 5>>,
      <<3, 7, 10>>, <<3, 7, 15>>, <<3, 7, 20>>, <<4, -2, 10>>, <<4, -2, 20>>, <<4, 1, 20>>,
      <<4, 3, 20>>, <<4, 7, 20>>, <<5, -1, 10>>, <<5, -1, 20>>, <<5, 3, 10>>, <<5, 3, 20>>,
      <<5, 4, 20>>, <<6, -1, 20>>, <<6, 0, 10>>, <<6, 0, 20>>, <<6, 4, 10>>, <<6, 4, 20>>,
      <<6, 5, 20>>, <<7, 0, 20>>, <<7, 1, 10>>, <<7, 1, 20>>, <<7, 5, 10>>, <<7, 5, 20>>,
      <<7, 6, 20>> }

Drift(from, target, k) ==
    IF <<from, target, k>> \in DriftBelow THEN -1
    ELSE IF <<from, target, k>> \in DriftAbove THEN 1
    ELSE 0

\* one callback of the interval timer of the i-th running tween; exact
\* quantities are multiplied by 20 to stay in the integers
TweenCallback(d, i) ==
    LET tw        == d.tweens[i]
        k         == tw.k + 1
        increment == tw.target - tw.from
        current   == TweenSteps * tw.from + k * increment
        newValue  == TweenSteps * tw.target
        drift     == Drift(tw.from, tw.target, k)
        done      == \/ increment > 0 /\ (current > newValue \/ (current = newValue /\ drift >= 0))
                     \/ increment < 0 /\ (current < newValue \/ (current = newValue /\ drift <= 0))
        floor     == IF current % TweenSteps = 0 /\ drift < 0
                     THEN current \div TweenSteps - 1
                     ELSE current \div TweenSteps
    IN  [d EXCEPT !.counter = IF done THEN tw.target ELSE floor,
                  !.tweens  = IF done THEN RemoveAt(@, i) ELSE [@ EXCEPT ![i].k = @ + 1]]

\* updateDashboardStats(data)
RECURSIVE updateDashboardStats(_, _)
updateDashboardStats(d, data) ==
    IF data = <<>> THEN d
    ELSE updateDashboardStats(
             IF Head(data).key = "products" /\ "stat" \in env.nodes
             THEN animateNumber(d, Head(data).value) ELSE d,
             Tail(data))

\* updateRecentActivities(data) for a list of n entries
updateRecentActivities(d, n) ==
    IF "activities" \notin env.nodes THEN d
    ELSE IF n = 0 THEN [d EXCEPT !.activities = [html |-> "No recent activities found.", n |-> 0]]
    ELSE [d EXCEPT !.activities = [html |-> "timeline", n |-> n]]

(***************************************************************************)
(* Fraud alerts                                                            *)
(***************************************************************************)
Alerts ==
    { [message |-> "Temperature log tampered", severity |-> "high"],
      [message |-> "Duplicate batch id",       severity |-> "high"],
      [message |-> "Late scan",                severity |-> "medium"] }

RECURSIVE SeqsUpTo(_, _)
SeqsUpTo(S, n) ==
    IF n = 0 THEN {<<>>}
    ELSE SeqsUpTo(S, n - 1) \cup {Append(s, x) : s \in {q \in SeqsUpTo(S, n - 1) : Len(q) = n - 1}, x \in S}

\* the test of checkFraudAlerts on one alert; the first definition is the
\* variant that lets every alert through
AnySeverity(alert) == TRUE

IsHigh(alert) == alert.severity = "high"

\* the then-handler of checkFraudAlerts: alerts.forEach on the notification state
RECURSIVE ShowFraudAlerts(_, _)
ShowFraudAlerts(n, alerts) ==
    IF alerts = <<>> THEN n
    ELSE ShowFraudAlerts(
             IF IsHigh(Head(alerts))
             THEN showNotification(n, Head(alerts).message, "danger", 10000) ELSE n,
             Tail(alerts))

(***************************************************************************)
(* Product status                                                          *)
(***************************************************************************)
Colors == [created |-> "success", in_transit |-> "warning",
           delivered |-> "info", expired |-> "danger"]

getStatusColor(status) ==
    IF status \in DOMAIN Colors THEN Colors[status]
    ELSE IF status \in DOMAIN ObjectPrototype THEN ObjectPrototype[status]
    ELSE "secondary"

Statuses == {"created", "in_transit", "delivered", "expired", "recalled", "constructor"}

\* an optional number is <<>> (the field is missing) or <<n>>
Truthy(opt) == opt # <<>> /\ opt[1] # 0

Conditions ==
    { [temperature |-> <<>>,   humidity |-> <<40>>],
      [temperature |-> <<0>>,  humidity |-> <<>>],
      [temperature |-> <<21>>, humidity |-> <<40>>],
      [temperature |-> <<-3>>, humidity |-> <<0>>] }

\* ProductStatusSnapshot; status "" stands for a missing status,
\* environmental_conditions <<>> for a missing object
Snapshots ==
    [status : Statuses \cup {""},
     environmental_conditions : {<<>>} \cup {<<c>> : c \in Conditions}]

NoProduct == [temp |-> <<"-">>, humidity |-> <<"-">>, status |-> "", className |-> <<"badge">>]

\* updateProductDisplay(data)
updateProductDisplay(pr, data) ==
    LET ec == data.environmental_conditions
        p1 == IF ec # <<>> /\ "temp" \in env.nodes /\ Truthy(ec[1].temperature)
              THEN [pr EXCEPT !.temp = NumberToString(Num(ec[1].temperature[1])) \o <<"°", "C">>]
              ELSE pr
        p2 == IF ec # <<>> /\ "humidity" \in env.nodes /\ Truthy(ec[1].humidity)
              THEN [p1 EXCEPT !.humidity = NumberToString(Num(ec[1].humidity[1])) \o <<"%">>]
              ELSE p1
    IN  IF "status" \in env.nodes /\ data.status # ""
        THEN [p2 EXCEPT !.status = data.status,
                        !.className = <<"badge bg-", getStatusColor(data.status)>>]
        ELSE p2

(***************************************************************************)
(* User-initiated actions                                                  *)
(***************************************************************************)
NoActs == [requests |-> <<>>, started |-> 0, latitude |-> <<>>, longitude |-> <<>>]

\* the [data-clipboard-text] button and the textareas of the fallback;
\* created counts the textareas ever appended to the body
NoClip == [innerHTML |-> "Copy", success |-> FALSE, timers |-> {}, nextId |-> 1,
           textareas |-> 0, created |-> 0]

\* showCopySuccess(button) on s = [clip, notif]; btn tells whether a
\* button was passed
showCopySuccess(s, btn) ==
    [clip  |-> IF btn
               THEN [s.clip EXCEPT
                       !.innerHTML = "Copied!",
                       !.success = TRUE,
                       !.timers = @ \cup {[id |-> s.clip.nextId,
                                           originalContent |-> s.clip.innerHTML,
                                           ms |-> 2000]},
                       !.nextId = @ + 1]
               ELSE s.clip,
     notif |-> showNotification(s.notif, "Copied to clipboard!", "success", 5000)]

\* fallbackCopyToClipboard where the catch block returns, skipping removeChild
fallbackReturnsInCatch(s, btn, exec) ==
    LET appended == [s EXCEPT !.clip.textareas = @ + 1, !.clip.created = @ + 1]
    IN  IF exec = "throws"
        THEN [appended EXCEPT
                !.notif = showNotification(@, "Failed to copy to clipboard", "danger", 5000)]
        ELSE [showCopySuccess(appended, btn) EXCEPT !.clip.textareas = @ - 1]

\* fallbackCopyToClipboard(text, button); exec is what document.execCommand
\* does: return true, return false or throw
fallbackCopyToClipboard(s, btn, exec) ==
    LET appended == [s EXCEPT !.clip.textareas = @ + 1, !.clip.created = @ + 1]
        tried    == IF exec = "throws"
                    THEN [appended EXCEPT
                            !.notif = showNotification(@, "Failed to copy to clipboard",
                                                       "danger", 5000)]
                    ELSE showCopySuccess(appended, btn)
    IN  [tried EXCEPT !.clip.textareas = @ - 1]

ExecOutcomes == {"true", "false", "throws"}

\* the payloads of /products/api/{id}/track for the explicit action:
\* {success, product}, product <<>> when the key is missing
TrackProducts ==
    { [status |-> "delivered", environmental_conditions |-> <<>>],
      [status |-> "", environmental_conditions |-> <<[temperature |-> <<21>>, humidity |-> <<40>>]>>] }

TrackPayloads == [success : BOOLEAN, product : {<<>>} \cup {<<p>> : p \in TrackProducts}]

\* the then-handler of trackProduct on s = [product, notif]; reading
\* environmental_conditions of a missing product throws, which the catch
\* handler of the chain reports
TrackResolved(s, data) ==
    IF ~data.success THEN s
    ELSE IF data.product = <<>>
    THEN [s EXCEPT !.notif = showNotification(@, "Failed to update product status", "danger", 5000)]
    ELSE [product |-> updateProductDisplay(s.product, data.product[1]),
          notif   |-> showNotification(s.notif, "Product status updated", "success", 5000)]

\* the catch handler of trackProduct
TrackRejected(s) ==
    [s EXCEPT !.notif = showNotification(@, "Failed to update product status", "danger", 5000)]

\* the handlers of verifyBlockchainRecord on the notification state
VerifySettled(n, outcome) ==
    CASE outcome = "verified"   -> showNotification(n, "Blockchain record verified successfully", "success", 5000)
      [] outcome = "unverified" -> showNotification(n, "Blockchain verification failed", "danger", 5000)
      [] outcome = "rejected"   -> showNotification(n, "Error verifying blockchain record", "danger", 5000)

\* digits of n, padded with zeros on the left to width w
RECURSIVE PadLeft(_, _)
PadLeft(ds, w) == IF Len(ds) >= w THEN ds ELSE PadLeft(<<"0">> \o ds, w)

\* x.toFixed(6) for a coordinate given in millionths of a degree
toFixed6(micro) ==
    LET abs == IF micro < 0 THEN 0 - micro ELSE micro
    IN  (IF micro < 0 THEN <<"-">> ELSE <<>>)
            \o NatToString(abs \div 1000000) \o <<".">> \o PadLeft(NatToString(abs % 1000000), 6)

\* coordinates in millionths of a degree
Positions == {[latitude |-> 6927079, longitude |-> 79861244],
              [latitude |-> -500000, longitude |-> 0]}

\* the callback fillLocationFields hands to getCurrentLocation, on
\* s = [acts, notif]
FillLocation(s, location) ==
    [acts  |-> [s.acts EXCEPT
                  !.latitude  = IF "latitude" \in env.nodes THEN toFixed6(location.latitude) ELSE @,
                  !.longitude = IF "longitude" \in env.nodes THEN toFixed6(location.longitude) ELSE @],
     notif |-> showNotification(s.notif, "Location filled automatically", "success", 5000)]

\* the notification of the advanced search for a response of n results
FoundMessage(n) == "Found " \o ToString(n) \o " results"

(***************************************************************************)
(* Export                                                                  *)
(***************************************************************************)
\* Array.prototype.join on strings kept as sequences of characters
RECURSIVE Join(_, _)
Join(parts, sep) ==
    IF parts = <<>> THEN <<>>
    ELSE IF Len(parts) = 1 THEN parts[1]
    ELSE parts[1] \o <<sep>> \o Join(Tail(parts), sep)

\* an object is the sequence of its [key, value] entries in property order;
\* a key is a text, a value a record of its type (string, number, boolean,
\* null) and the text String(value) gives; numbers are finite
ObjectKeys(row) == [k \in 1..Len(row) |-> row[k].key]

ObjectValues(row) == [k \in 1..Len(row) |-> row[k].value]

\* the array handed to the export functions: missing (undefined when undef,
\* else null) or rows
NoExport == [data |-> [missing |-> TRUE, undef |-> TRUE, rows |-> <<>>],
             downloads |-> <<>>, calls |-> 0]

\* downloadFile(content, filename, contentType)
downloadFile(e, content, filename, contentType) ==
    [e EXCEPT !.downloads = Append(@, [content |-> content, filename |-> filename,
                                       type |-> contentType])]

\* the text Array.prototype.join takes for an element: the empty string for
\* null, String(value) otherwise
JoinText(v) == IF v.type = "null" THEN <<>> ELSE v.text

\* values.join(sep)
JoinValues(values, sep) == Join([k \in 1..Len(values) |-> JoinText(values[k])], sep)

\* exportToCSV(data, filename) with filename 'export'
exportToCSV(e) ==
    IF e.data.missing \/ Len(e.data.rows) = 0 THEN e
    ELSE LET rows       == e.data.rows
             csvContent == Join(<<Join(ObjectKeys(rows[1]), ",")>>
                                  \o [i \in 1..Len(rows) |-> JoinValues(ObjectValues(rows[i]), ",")],
                                "\n")
         IN  downloadFile(e, csvContent, "export.csv", "text/csv")

\* the control characters U+0001 to U+001F, in code order (the values of
\* this model do not contain U+0000)
ControlChars ==
   << "", "", "", "", "", "", "", "",
      "\t", "\n", "", "\f", "\r", "", "", "",
      "", "", "", "", "", "", "", "",
      "", "", "", "", "", "", "" >>

\* \u00XX for a character code below 32
UnicodeEscape(code) ==
    LET hex == <<"0", "1", "2", "3", "4", "5", "6", "7", "8", "9", "a", "b", "c", "d", "e", "f">>
    IN  <<"\\", "u", "0", "0", hex[(code \div 16) + 1], hex[(code % 16) + 1]>>

\* the body of a JSON string literal: quote, backslash and the control
\* characters with a short escape (\b \t \n \f \r), the other control
\* characters as \u00XX, every other character as it is
RECURSIVE JsonEscape(_)
JsonEscape(v) ==
    IF v = <<>> THEN <<>>
    ELSE (CASE Head(v) = "\"" -> <<"\\", "\"">>
            [] Head(v) = "\\" -> <<"\\", "\\">>
            [] Head(v) = ControlChars[8] -> <<"\\", "b">>
            [] Head(v) = "\t" -> <<"\\", "t">>
            [] Head(v) = "\n" -> <<"\\", "n">>
            [] Head(v) = "\f" -> <<"\\", "f">>
            [] Head(v) = "\r" -> <<"\\", "r">>
            [] \E c \in 1..31 : ControlChars[c] = Head(v) ->
                  UnicodeEscape(CHOOSE c \in 1..31 : ControlChars[c] = Head(v))
            [] OTHER -> <<Head(v)>>) \o JsonEscape(Tail(v))

JsonString(v) == <<"\"">> \o JsonEscape(v) \o <<"\"">>

\* a string value is quoted; a number, true, false and null are written bare
JsonValue(v) == IF v.type = "string" THEN JsonString(v.text) ELSE v.text

\* the lines JSON.stringify(row, null, 2) gives for an object that is an
\* element of the array: indented by two spaces, its entries by four
JsonRowLines(row, last) ==
    LET close == <<" ", " ", "}">> \o (IF last THEN <<>> ELSE <<",">>)
    IN  IF row = <<>> THEN <<<<" ", " ", "{", "}">> \o (IF last THEN <<>> ELSE <<",">>)>>
        ELSE <<<<" ", " ", "{">>>>
               \o [k \in 1..Len(row) |->
                      <<" ", " ", " ", " ">> \o JsonString(row[k].key) \o <<":", " ">>
                         \o JsonValue(row[k].value)
                         \o (IF k = Len(row) THEN <<>> ELSE <<",">>)]
               \o <<close>>

RECURSIVE JsonRows(_)
JsonRows(rows) ==
    IF rows = <<>> THEN <<>>
    ELSE JsonRowLines(Head(rows), Len(rows) = 1) \o JsonRows(Tail(rows))

\* JSON.stringify(data, null, 2) as new Blob([...]) stores it: undefined
\* and null give the texts 'undefined' and 'null'
JsonStringify(data) ==
    IF data.missing
    THEN (IF data.undef THEN <<"u", "n", "d", "e", "f", "i", "n", "e", "d">>
                        ELSE <<"n", "u", "l", "l">>)
    ELSE IF data.rows = <<>> THEN <<"[", "]">>
    ELSE Join(<<<<"[">>>> \o JsonRows(data.rows) \o <<<<"]">>>>, "\n")

\* exportToJSON(data, filename) with filename 'export'
exportToJSON(e) == downloadFile(e, JsonStringify(e.data), "export.json", "application/json")

\* exportData(format, data, filename): any other format does nothing
exportData(e, format) ==
    IF format = "csv" THEN exportToCSV(e)
    ELSE IF format = "json" THEN exportToJSON(e)
    ELSE e

Formats == {"csv", "json", "xml"}

CellKeys == <<<<"a">>, <<"b">>>>

\* the values of a cell: a number, a string of digits, a string with a comma
\* and a backspace, a string with a line break, and null
CellValues ==
    { [type |-> "number", text |-> <<"-", "1">>],
      [type |-> "string", text |-> <<"7">>],
      [type |-> "string", text |-> <<"x", ",", ControlChars[8]>>],
      [type |-> "string", text |-> <<"x", "\n", "y">>],
      [type |-> "null",   text |-> <<"n", "u", "l", "l">>] }

\* the rows of w columns
RowsOf(w) ==
    { [k \in 1..w |-> [key |-> CellKeys[k], value |-> vs[k]]] : vs \in [1..w -> CellValues] }

\* missing, empty, or up to MaxRows uniform rows of one or two columns
ExportInputs ==
    {[missing |-> TRUE, undef |-> u, rows |-> <<>>] : u \in BOOLEAN}
        \cup {[missing |-> FALSE, undef |-> FALSE, rows |-> rs] :
                 rs \in UNION {SeqsUpTo(RowsOf(w), MaxRows) : w \in 1..2}}

(***************************************************************************)
(* Modal content loader                                                    *)
(***************************************************************************)
ModalPlaceholder == "<div class=\"text-center\"><div class=\"loading-spinner\"></div> Loading...</div>"

ModalError == "<div class=\"alert alert-danger\">Error loading content.</div>"

\* the modal body as the page delivers it; no content request in flight
NoModal == [body |-> "initial", requests |-> <<>>, nextId |-> 1]

\* a trigger: what its data-bs-target selects (nothing, a modal without
\* .modal-body, a modal with one) and its data-url attribute
Triggers == [target : {"none", "bare", "modal"}, url : {"", "/a", "/b"}]

\* the bodies a content request can resolve with
ModalHtml == {"<p>a</p>", "<p>b</p>"}

\* the click handler reaches fetch: the target exists, data-url is truthy
\* and modal.querySelector('.modal-body') is an element
ModalLoads(t) == t.target = "modal" /\ t.url # ""

\* the click handler throws: modalBody is null and its innerHTML is assigned
ModalThrows(t) == t.target = "bare" /\ t.url # ""

\* loadModalContent(modal, url)
loadModalContent(m, url) ==
    [m EXCEPT !.body = ModalPlaceholder,
              !.requests = Append(@, [id |-> m.nextId, url |-> url]),
              !.nextId = @ + 1]

\* a catch callback that only logs
ModalSettledSilent(m, i, ok, html) ==
    [m EXCEPT !.body = IF ok THEN html ELSE @,
              !.requests = RemoveAt(@, i)]

\* the then / catch callback of the content request
ModalSettled(m, i, ok, html) ==
    [m EXCEPT !.body = IF ok THEN html ELSE ModalError,
              !.requests = RemoveAt(@, i)]

(***************************************************************************)
(* Utility functions: throttle and debounce                                *)
(***************************************************************************)
\* the limit and wait arguments tried, in ms
Delays == {2, 3}

\* the arguments a call passes on
ArgValues == {"x", "y"}

\* what func does when the returned function invokes it: it returns, it
\* throws, or it calls the returned function once more before it returns
\* (the inner invocation of func returns)
FuncOutcomes == {"returns", "throws", "reenters"}

\* before throttle(func, limit) is called; calls records every call of the
\* returned function: when it was made, whether func ran and what func did;
\* timers holds the deadlines of the pending reset timeouts, oldest first
NoThrottle == [limit |-> 0, now |-> 0, inThrottle |-> FALSE, timers |-> <<>>, resets |-> 0,
               calls |-> <<>>]

\* throttle(func, limit): inThrottle starts undefined
throttle(t, limit) == [t EXCEPT !.limit = limit]

\* the function throttle returns: func.apply comes first, and only when it
\* has returned are inThrottle set and the reset timeout armed; a func that
\* throws leaves both undone, a func that calls the returned function again
\* finds inThrottle still unset
RECURSIVE throttled(_, _)
throttled(t, outcome) ==
    IF ~t.inThrottle
    THEN LET called == [t EXCEPT !.calls = Append(@, [at |-> t.now, ran |-> TRUE,
                                                      resets |-> t.resets, func |-> outcome])]
             applied == IF outcome = "reenters" THEN throttled(called, "returns") ELSE called
         IN  IF outcome = "throws" THEN applied
             ELSE [applied EXCEPT !.inThrottle = TRUE,
                                  !.timers = Append(@, t.now + t.limit)]
    ELSE [t EXCEPT !.calls = Append(@, [at |-> t.now, ran |-> FALSE,
                                        resets |-> t.resets, func |-> "none"])]

\* the timeout callback: inThrottle = false
throttleReset(t) ==
    [t EXCEPT !.inThrottle = FALSE, !.timers = Tail(@), !.resets = @ + 1]

\* before debounce(func, wait) is called; calls records the calls of the
\* returned function, runs the invocations of func
NoDebounce == [wait |-> 0, now |-> 0, timeout |-> 0, timers |-> {}, nextId |-> 1,
               calls |-> <<>>, runs |-> <<>>]

\* debounce(func, wait): timeout starts undefined
debounce(d, wait) == [d EXCEPT !.wait = wait]

\* an executedFunction that leaves the pending timer alone
executedFunctionNoClear(d, args) ==
    [d EXCEPT !.timers = @ \cup {[id |-> d.nextId, deadline |-> d.now + d.wait,
                                  args |-> args, call |-> Len(d.calls) + 1]},
              !.timeout = d.nextId,
              !.nextId = @ + 1,
              !.calls = Append(@, [at |-> d.now, args |-> args])]

\* executedFunction(...args), the function debounce returns
executedFunction(d, args) ==
    [d EXCEPT !.timers = ClearTimeout(@, d.timeout)
                            \cup {[id |-> d.nextId, deadline |-> d.now + d.wait,
                                   args |-> args, call |-> Len(d.calls) + 1]},
              !.timeout = d.nextId,
              !.nextId = @ + 1,
              !.calls = Append(@, [at |-> d.now, args |-> args])]

\* later, the callback of timer t: clearTimeout(timeout); func(...args)
later(d, t) ==
    [d EXCEPT !.timers = ClearTimeout(@ \ {t}, d.timeout),
              !.runs = Append(@, [at |-> d.now, args |-> t.args, call |-> t.call,
                                  seen |-> Len(d.calls)])]

(***************************************************************************)
(* The state before DOMContentLoaded                                       *)
(***************************************************************************)
PlainForm ==
    [id |-> "product-form", hasButton |-> TRUE,
     fields |-> <<MakeField(TextKind, TRUE, "w1"), MakeField(TextKind, FALSE, "w2")>>]

Untouched ==
    /\ phase = "loading"
    /\ bodyTheme = "unset"
    /\ themeIcon = "unset"
    /\ listeners = [submit |-> <<>>, toggle |-> 0, validation |-> FALSE, search |-> FALSE]
    /\ notif = NoNotif
    /\ prefLog = <<>>
    /\ lastEv = [kind |-> "none"]
    /\ value = [f \in Fields |-> <<>>]
    /\ invalid = {}
    /\ valid = {}
    /\ errs = [c \in Containers |-> <<>>]
    /\ button = InitialButton
    /\ advRequests = <<>>
    /\ now = 0
    /\ search = NoSearch
    /\ searchReqs = <<>>
    /\ results = InitialResults
    /\ searchLog = <<>>
    /\ poll = NoPoll
    /\ product = NoProduct
    /\ acts = NoActs
    /\ clip = NoClip
    /\ modal = NoModal
    /\ thr = NoThrottle
    /\ deb = NoDebounce

\* a page with the theme toggle: any saved preference, any of the two elements
Init ==
    /\ Untouched
    /\ exp = NoExport
    /\ env = DefaultEnv
    /\ dash = NoDash
    /\ stored \in {"none", "light", "dark"}
    /\ page \in [hasToggle : BOOLEAN, hasIcon : BOOLEAN,
                 hasSearchInput : {FALSE}, hasResults : {FALSE}]
    /\ form = PlainForm

\* a page with one form out of FormConfigs
InitForm ==
    /\ Untouched
    /\ exp = NoExport
    /\ env = DefaultEnv
    /\ dash = NoDash
    /\ stored = "none"
    /\ page = [hasToggle |-> FALSE, hasIcon |-> TRUE,
               hasSearchInput |-> FALSE, hasResults |-> TRUE]
    /\ form \in FormConfigs

\* a page with a search input
InitSearch ==
    /\ Untouched
    /\ exp = NoExport
    /\ env = DefaultEnv
    /\ dash = NoDash
    /\ stored = "none"
    /\ page \in [hasToggle : {FALSE}, hasIcon : {TRUE},
                 hasSearchInput : {TRUE}, hasResults : BOOLEAN]
    /\ form = PlainForm

\* the pages with a polling refresher: the dashboard with a counter showing
\* 0 or 5, the analytics page, a product page
PollEnvs ==
    { [path |-> {"/dashboard"}, nodes |-> {"stat", "activities"}, apis |-> {}],
      [path |-> {"/dashboard"}, nodes |-> {}, apis |-> {}],
      [path |-> {"/analytics"}, nodes |-> {}, apis |-> {}],
      [path |-> {"/products/"}, nodes |-> {"productId", "temp", "humidity", "status"}, apis |-> {}],
      [path |-> {"/products/"}, nodes |-> {"productId", "temp"}, apis |-> {}],
      [path |-> {"/products/"}, nodes |-> {}, apis |-> {}],
      [path |-> {}, nodes |-> {"stat", "activities", "productId", "temp"}, apis |-> {}] }

InitPolling ==
    /\ Untouched
    /\ exp = NoExport
    /\ stored = "none"
    /\ page = [hasToggle |-> FALSE, hasIcon |-> TRUE,
               hasSearchInput |-> FALSE, hasResults |-> FALSE]
    /\ form = PlainForm
    /\ env \in PollEnvs
    /\ dash \in {[NoDash EXCEPT !.counter = c] :
                    c \in IF "stat" \in env.nodes THEN Counters ELSE {0}}

\* the dashboard with its counter and timeline
InitTween ==
    /\ InitPolling
    /\ env.path = {"/dashboard"}
    /\ env.nodes # {}

AdvancedForm ==
    [id |-> "advanced-search-form", hasButton |-> TRUE,
     fields |-> <<MakeField(TextKind, FALSE, "w1"), MakeField(TextKind, FALSE, "w2")>>]

\* a page with the advanced-search form, a copy button, the location fields
\* and the product nodes, in a browser with or without the clipboard and
\* geolocation APIs
InitActions ==
    /\ Untouched
    /\ exp = NoExport
    /\ stored = "none"
    /\ page = [hasToggle |-> FALSE, hasIcon |-> TRUE,
               hasSearchInput |-> FALSE, hasResults |-> TRUE]
    /\ form = AdvancedForm
    /\ env \in [path : {{}},
                nodes : {{"copyButton", "latitude", "longitude", "temp", "humidity", "status"}},
                apis : SUBSET {"clipboard", "geolocation"}]
    /\ dash = NoDash

\* a page about to export one of ExportInputs
\* a call of exportData(format, data, 'export')
ExportData(format) ==
    /\ phase = "ready"
    /\ exp.calls < MaxExports
    /\ exp' = [exportData(exp, format) EXCEPT !.calls = @ + 1]
    /\ lastEv' = [kind |-> "exportData", format |-> format]
    /\ UNCHANGED <<phase, staticVars, modal, utilVars, env, poll, pollVars, acts, clip, themeVars, listeners,
                   notif, formVars, searchVars>>

InitExport ==
    /\ Untouched
    /\ stored = "none"
    /\ page = [hasToggle |-> FALSE, hasIcon |-> TRUE,
               hasSearchInput |-> FALSE, hasResults |-> FALSE]
    /\ form = PlainForm
    /\ env = DefaultEnv
    /\ dash = NoDash
    /\ exp \in {[NoExport EXCEPT !.data = d] : d \in ExportInputs}

\* a page with an advanced-search form, with or without #search-results
InitAdvanced ==
    /\ Untouched
    /\ exp = NoExport
    /\ env = DefaultEnv
    /\ dash = NoDash
    /\ stored = "none"
    /\ page \in [hasToggle : {FALSE}, hasIcon : {TRUE},
                 hasSearchInput : {FALSE}, hasResults : BOOLEAN]
    /\ form \in {c \in FormConfigs : c.id = "advanced-search-form"}

\* any combination of the path markers in the pathname; a product page
\* with or without its [data-product-id] element
TimerEnvs ==
    {[path |-> P, nodes |-> N, apis |-> {}] : P \in SUBSET PathMarkers, N \in {{}, {"productId"}}}

InitTimers ==
    /\ Untouched
    /\ exp = NoExport
    /\ stored = "none"
    /\ page = [hasToggle |-> FALSE, hasIcon |-> TRUE,
               hasSearchInput |-> FALSE, hasResults |-> FALSE]
    /\ form = PlainForm
    /\ env \in TimerEnvs
    /\ dash = NoDash

\* the script is loaded; neither throttle nor debounce has been called
InitUtil ==
    /\ Untouched
    /\ exp = NoExport
    /\ env = DefaultEnv
    /\ dash = NoDash
    /\ stored = "none"
    /\ page = [hasToggle |-> FALSE, hasIcon |-> TRUE,
               hasSearchInput |-> FALSE, hasResults |-> FALSE]
    /\ form = PlainForm

(***************************************************************************)
(* Page initialization                                                     *)
(***************************************************************************)
\* the submit listeners in registration order: setupFormSubmissions runs
\* from setupEventListeners and again from initializeApp, setupAdvancedSearch
\* from the second DOMContentLoaded handler
SubmitListeners ==
    <<"formGuard", "formGuard">>
        \o (IF form.id = "advanced-search-form" THEN <<"advancedSearch">> ELSE <<>>)

\* both DOMContentLoaded handlers.  updateThemeToggleUI throws when #themeIcon
\* is missing, which ends initializeThemeToggle before it adds the click
\* listener; the second handler still runs.
DOMContentLoaded ==
    /\ phase = "loading"
    /\ phase' = "ready"
    /\ bodyTheme' = AppliedTheme(GetTheme(stored))
    /\ themeIcon' = IF page.hasIcon THEN IconFor(GetTheme(stored) = "dark") ELSE themeIcon
    /\ listeners' = [submit |-> SubmitListeners,
                     toggle |-> IF page.hasIcon /\ page.hasToggle THEN 1 ELSE 0,
                     validation |-> TRUE,
                     search |-> page.hasSearchInput]
    /\ prefLog' = <<GetTheme(stored)>>
    /\ poll' = StartIntervals(poll)
    /\ lastEv' = [kind |-> "load"]
    /\ UNCHANGED <<staticVars, modal, utilVars, env, pollVars, actionVars, stored, notif, formVars, searchVars>>

(***************************************************************************)
(* Theme toggle and notification events                                    *)
(***************************************************************************)
\* a call of the exported FoodChainTracker.initializeThemeToggle after the
\* page has loaded: the stored theme is applied again and #themeToggle gets
\* one more click listener (updateThemeToggleUI throws before that on a page
\* without #themeIcon)
InitializeThemeToggle ==
    /\ phase = "ready"
    /\ listeners.toggle < MaxListeners
    /\ bodyTheme' = AppliedTheme(GetTheme(stored))
    /\ themeIcon' = IF page.hasIcon THEN IconFor(GetTheme(stored) = "dark") ELSE themeIcon
    /\ listeners' = [listeners EXCEPT !.toggle = IF page.hasIcon /\ page.hasToggle THEN @ + 1 ELSE @]
    /\ lastEv' = [kind |-> "initializeThemeToggle"]
    /\ UNCHANGED <<phase, staticVars, modal, utilVars, bgVars, stored, prefLog, notif, formVars,
                   searchVars>>

\* click on #themeToggle (also what Ctrl/Cmd+D triggers): every registered
\* listener runs
ThemeToggleClick ==
    /\ phase = "ready"
    /\ listeners.toggle > 0
    /\ Len(prefLog) + listeners.toggle <= MaxToggles + 1
    /\ notif.nextId + listeners.toggle <= MaxNotifs + 1
    /\ LET st == DispatchClick([body |-> bodyTheme, stored |-> stored, icon |-> themeIcon,
                                notif |-> notif, log |-> prefLog, from |-> bodyTheme],
                               listeners.toggle)
       IN  /\ bodyTheme' = st.body
           /\ stored' = st.stored
           /\ themeIcon' = st.icon
           /\ notif' = st.notif
           /\ prefLog' = st.log
           /\ lastEv' = [kind |-> "notify", message |-> ThemeMessage(st.body), duration |-> 2000,
                         toggled |-> TRUE, from |-> st.from, runs |-> listeners.toggle]
    /\ UNCHANGED <<phase, staticVars, modal, utilVars, bgVars, listeners, formVars, searchVars>>

Messages == {"Copied to clipboard!", "Product status updated"}

Durations == {5000, 10000}

\* a call of the exported FoodChainTracker.showNotification
Notify(message, type, duration) ==
    /\ phase = "ready"
    /\ notif.nextId <= MaxNotifs
    /\ notif' = showNotification(notif, message, type, duration)
    /\ lastEv' = [kind |-> "notify", message |-> message, duration |-> duration,
                  toggled |-> FALSE, from |-> bodyTheme]
    /\ UNCHANGED <<phase, staticVars, modal, utilVars, bgVars, themeVars, listeners, formVars, searchVars>>

\* the auto-dismiss callback of timer t
NotificationTimerFires(t) ==
    /\ phase = "ready"
    /\ t \in notif.timers
    /\ notif' = [notif EXCEPT
                   !.timers = @ \ {t},
                   !.banners = SelectSeq(@, LAMBDA b : b.id # t.banner)]
    /\ lastEv' = [kind |-> "dismiss", timer |-> t, before |-> notif.banners]
    /\ UNCHANGED <<phase, staticVars, modal, utilVars, bgVars, themeVars, listeners, formVars, searchVars>>

\* click on the close control of the i-th banner
CloseClick(i) ==
    /\ phase = "ready"
    /\ i \in 1..Len(notif.banners)
    /\ notif' = [notif EXCEPT !.banners = RemoveAt(@, i)]
    /\ lastEv' = [kind |-> "close", banner |-> notif.banners[i].id]
    /\ UNCHANGED <<phase, staticVars, modal, utilVars, bgVars, themeVars, listeners, formVars, searchVars>>

(***************************************************************************)
(* Form events                                                             *)
(***************************************************************************)
Dom == [invalid |-> invalid, valid |-> valid, errs |-> errs]

Roomy == \A c \in Containers : Len(errs[c]) < MaxStack

\* blur on field f
Blur(f) ==
    /\ phase = "ready"
    /\ listeners.validation
    /\ Roomy
    /\ LET r == validateField(Dom, f, value[f])
       IN  /\ invalid' = r.d.invalid
           /\ valid' = r.d.valid
           /\ errs' = r.d.errs
           /\ lastEv' = [kind |-> "validate"]
    /\ UNCHANGED <<phase, staticVars, modal, utilVars, bgVars, themeVars, listeners, notif, value, button,
                   advRequests, searchVars>>

\* the user edits field f: the input listener revalidates a field that is
\* marked invalid
Input(f, v) ==
    /\ phase = "ready"
    /\ listeners.validation
    /\ Roomy
    /\ v \in ValuesOf(form.fields[f].type)
    /\ value' = [value EXCEPT ![f] = v]
    /\ IF f \in invalid
       THEN LET r == validateField(Dom, f, v)
            IN  /\ invalid' = r.d.invalid
                /\ valid' = r.d.valid
                /\ errs' = r.d.errs
       ELSE UNCHANGED <<invalid, valid, errs>>
    /\ lastEv' = [kind |-> "validate"]
    /\ UNCHANGED <<phase, staticVars, modal, utilVars, bgVars, themeVars, listeners, notif, button,
                   advRequests, searchVars>>

\* a submit event on the form: every listener runs, then the default
\* action (navigation) unless one of them prevented it
Submit ==
    /\ phase = "ready"
    /\ Roomy
    /\ ~(form.hasButton /\ button.disabled)
    /\ Len(advRequests) < MaxInFlight
    /\ notif.nextId + Len(advRequests) <= MaxNotifs
    /\ LET s == DispatchSubmit([d |-> Dom, button |-> button, prevented |-> FALSE,
                                requests |-> <<>>, returns |-> <<>>],
                               listeners.submit)
       IN  /\ invalid' = s.d.invalid
           /\ valid' = s.d.valid
           /\ errs' = s.d.errs
           /\ button' = s.button
           /\ advRequests' = advRequests \o s.requests
           /\ phase' = IF s.prevented THEN phase ELSE "navigated"
           /\ lastEv' = [kind |-> "submit", returns |-> s.returns,
                         prevented |-> s.prevented, requests |-> Len(s.requests),
                         label |-> button.innerHTML]
    /\ UNCHANGED <<staticVars, modal, utilVars, bgVars, themeVars, listeners, notif, value, searchVars>>

\* a call of the global removeLoadingState on the submit button
RemoveLoadingState ==
    /\ phase = "ready"
    /\ form.hasButton
    /\ button' = removeLoadingState(button)
    /\ lastEv' = [kind |-> "restore"]
    /\ UNCHANGED <<phase, staticVars, modal, utilVars, bgVars, themeVars, listeners, notif, value, invalid,
                   valid, errs, advRequests, searchVars>>

(***************************************************************************)
(* Search events                                                           *)
(***************************************************************************)
\* an input event on the search input leaving it with value v
SearchInput(v) ==
    /\ phase = "ready"
    /\ listeners.search
    /\ Cardinality({k \in 1..Len(searchLog) : searchLog[k].kind = "input"}) < MaxInputs
    /\ search' = ArmDebounce(search, v, now)
    /\ searchLog' = Append(searchLog, [kind |-> "input", at |-> now, value |-> v])
    /\ lastEv' = [kind |-> "searchInput"]
    /\ UNCHANGED <<phase, staticVars, modal, utilVars, bgVars, themeVars, listeners, notif, formVars, now,
                   searchReqs, results>>

\* the debounced callback of timer t runs
DebounceFires(t) ==
    /\ phase = "ready"
    /\ t \in search.timers
    /\ t.deadline <= now
    /\ search' = [search EXCEPT !.timers = @ \ {t}]
    /\ LET query == Trim(search.value)
       IN  /\ IF Len(query) >= 2
              THEN /\ searchReqs' = Append(searchReqs, [q |-> query, state |-> "pending"])
                   /\ results' = results
              ELSE /\ searchReqs' = searchReqs
                   /\ results' = clearSearchResults(results)
           /\ searchLog' = Append(searchLog, [kind |-> "run", at |-> now, value |-> search.value])
    /\ lastEv' = [kind |-> "debounce", before |-> Len(searchReqs)]
    /\ UNCHANGED <<phase, staticVars, modal, utilVars, bgVars, themeVars, listeners, notif, formVars, now>>

\* 100 ms pass; setTimeout promises a callback no sooner than its delay, so
\* a timer that is due may still be waiting for the event loop
Tick ==
    /\ phase = "ready"
    /\ now + 100 <= MaxTicks * 100
    /\ now' = now + 100
    /\ UNCHANGED <<phase, staticVars, modal, utilVars, bgVars, themeVars, listeners, notif, lastEv, formVars,
                   search, searchReqs, results, searchLog>>

\* the i-th request to /api/search settles: with n results, or rejected (n = -1)
SearchSettles(i, n) ==
    /\ phase = "ready"
    /\ i \in 1..Len(searchReqs)
    /\ searchReqs[i].state = "pending"
    /\ searchReqs' = [searchReqs EXCEPT ![i].state = "settled"]
    /\ results' = IF n >= 0 THEN displaySearchResults(results, n, searchReqs[i].q) ELSE results
    /\ lastEv' = [kind |-> "searchSettles", q |-> searchReqs[i].q, n |-> n]
    /\ UNCHANGED <<phase, staticVars, modal, utilVars, bgVars, themeVars, listeners, notif, formVars, now,
                   search, searchLog>>

(***************************************************************************)
(* Polling events                                                          *)
(***************************************************************************)
\* a direct call of the exported FoodChainTracker.refreshDashboardData or
\* FoodChainTracker.updateProductStatus, on any page
ExportedPoll(fn) ==
    /\ phase = "ready"
    /\ poll.fired + poll.called < MaxPolls
    /\ poll' = [RunInterval(poll, fn) EXCEPT !.called = @ + 1]
    /\ lastEv' = [kind |-> "exportedPoll", fn |-> fn]
    /\ UNCHANGED <<phase, staticVars, modal, utilVars, env, pollVars, actionVars, themeVars, listeners,
                   notif, formVars, searchVars>>

\* the callback of interval timer t runs
IntervalFires(t) ==
    /\ phase = "ready"
    /\ t \in poll.intervals
    /\ poll.fired + poll.called < MaxPolls
    /\ poll' = [RunInterval(poll, t.fn) EXCEPT !.fired = @ + 1]
    /\ lastEv' = [kind |-> "interval", fn |-> t.fn]
    /\ UNCHANGED <<phase, staticVars, modal, utilVars, env, pollVars, actionVars, themeVars, listeners,
                   notif, formVars, searchVars>>

\* the i-th polling request is rejected: the catch handler logs
PollRejected(i) ==
    /\ phase = "ready"
    /\ i \in 1..Len(poll.requests)
    /\ poll' = [poll EXCEPT !.requests = RemoveAt(@, i), !.rejected = @ + 1]
    /\ notif' = CatchPollError(notif)
    /\ lastEv' = [kind |-> "pollRejected", url |-> poll.requests[i]]
    /\ UNCHANGED <<phase, staticVars, modal, utilVars, env, pollVars, actionVars, themeVars, listeners,
                   formVars, searchVars>>

\* /dashboard/api/quick_stats answers the i-th request with data
StatsArrive(i, data) ==
    /\ phase = "ready"
    /\ i \in 1..Len(poll.requests)
    /\ poll.requests[i] = "quick_stats"
    /\ poll' = [poll EXCEPT !.requests = RemoveAt(@, i)]
    /\ dash' = updateDashboardStats(dash, data)
    /\ lastEv' = [kind |-> "stats", data |-> data]
    /\ UNCHANGED <<phase, staticVars, modal, utilVars, env, product, actionVars, themeVars, listeners,
                   notif, formVars, searchVars>>

\* /dashboard/api/recent_activities answers the i-th request with n entries
ActivitiesArrive(i, n) ==
    /\ phase = "ready"
    /\ i \in 1..Len(poll.requests)
    /\ poll.requests[i] = "recent_activities"
    /\ poll' = [poll EXCEPT !.requests = RemoveAt(@, i)]
    /\ dash' = updateRecentActivities(dash, n)
    /\ lastEv' = [kind |-> "activities", n |-> n]
    /\ UNCHANGED <<phase, staticVars, modal, utilVars, env, product, actionVars, themeVars, listeners,
                   notif, formVars, searchVars>>

\* one callback of the interval timer of the i-th running tween
TweenTick(i) ==
    /\ phase = "ready"
    /\ i \in 1..Len(dash.tweens)
    /\ dash.tweens[i].k < MaxTweenTicks
    \* timers of the same period run in the order they were started
    /\ \A j \in 1..(i - 1) : dash.tweens[j].k > dash.tweens[i].k
    /\ dash' = TweenCallback(dash, i)
    /\ lastEv' = [kind |-> "tween", target |-> dash.tweens[i].target,
                  cleared |-> Len(TweenCallback(dash, i).tweens) < Len(dash.tweens)]
    /\ UNCHANGED <<phase, staticVars, modal, utilVars, env, poll, product, actionVars, themeVars, listeners,
                   notif, formVars, searchVars>>

\* /analytics/api/fraud_alerts answers the i-th request with alerts
FraudAlertsArrive(i, alerts) ==
    /\ phase = "ready"
    /\ i \in 1..Len(poll.requests)
    /\ poll.requests[i] = "fraud_alerts"
    /\ poll' = [poll EXCEPT !.requests = RemoveAt(@, i)]
    /\ notif' = ShowFraudAlerts(notif, alerts)
    /\ lastEv' = [kind |-> "fraud", alerts |-> alerts, before |-> notif]
    /\ UNCHANGED <<phase, staticVars, modal, utilVars, env, pollVars, actionVars, themeVars, listeners,
                   formVars, searchVars>>

\* /products/api/{id}/track answers the i-th polling request with data
ProductStatusArrives(i, data) ==
    /\ phase = "ready"
    /\ i \in 1..Len(poll.requests)
    /\ poll.requests[i] = "track"
    /\ poll' = [poll EXCEPT !.requests = RemoveAt(@, i)]
    /\ product' = updateProductDisplay(product, data)
    /\ lastEv' = [kind |-> "productStatus", data |-> data]
    /\ UNCHANGED <<phase, staticVars, modal, utilVars, env, dash, actionVars, themeVars, listeners,
                   notif, formVars, searchVars>>

(***************************************************************************)
(* User-initiated events                                                   *)
(***************************************************************************)
Request(a, r) == [a EXCEPT !.requests = Append(@, r), !.started = @ + 1]

\* what a handler that ends an action records: the notifications it showed
\* and the textareas it appended
Settled(action, outcome, n1, c1) ==
    [kind |-> "settled", action |-> action, outcome |-> outcome,
     notified |-> n1.nextId - notif.nextId,
     fallback |-> c1.created > clip.created]

\* copyToClipboard(text, button): a click on the [data-clipboard-text]
\* button (button = TRUE) or copyBatchId (button = FALSE)
CopyClick(btn, exec) ==
    /\ phase = "ready"
    /\ acts.started < MaxActions
    /\ btn => "copyButton" \in env.nodes
    /\ IF "clipboard" \in env.apis
       THEN /\ acts' = Request(acts, [kind |-> "clipboard", button |-> btn])
            /\ lastEv' = [kind |-> "writeText"]
            /\ UNCHANGED <<clip, notif>>
       ELSE LET s == fallbackCopyToClipboard([clip |-> clip, notif |-> notif], btn, exec)
            IN  /\ clip' = s.clip
                /\ notif' = s.notif
                /\ acts' = [acts EXCEPT !.started = @ + 1]
                /\ lastEv' = Settled("copy", "absent", s.notif, s.clip)
    /\ UNCHANGED <<phase, staticVars, modal, utilVars, env, poll, pollVars, exp, themeVars, listeners,
                   formVars, searchVars>>

\* navigator.clipboard.writeText of the i-th request resolves (ok) or rejects
ClipboardSettles(i, ok, exec) ==
    /\ phase = "ready"
    /\ i \in 1..Len(acts.requests)
    /\ acts.requests[i].kind = "clipboard"
    /\ LET s0 == [clip |-> clip, notif |-> notif]
           s  == IF ok THEN showCopySuccess(s0, acts.requests[i].button)
                 ELSE fallbackCopyToClipboard(s0, acts.requests[i].button, exec)
       IN  /\ clip' = s.clip
           /\ notif' = s.notif
           /\ lastEv' = Settled("copy", IF ok THEN "resolved" ELSE "rejected", s.notif, s.clip)
    /\ acts' = [acts EXCEPT !.requests = RemoveAt(@, i)]
    /\ UNCHANGED <<phase, staticVars, modal, utilVars, env, poll, pollVars, exp, themeVars, listeners,
                   formVars, searchVars>>

\* the 2000 ms timer t of showCopySuccess restores the button
CopyFeedbackTimerFires(t) ==
    /\ phase = "ready"
    /\ t \in clip.timers
    \* all these timers have the same delay: they run in the order they were set
    /\ \A u \in clip.timers : t.id <= u.id
    /\ clip' = [clip EXCEPT !.innerHTML = t.originalContent, !.success = FALSE,
                            !.timers = @ \ {t}]
    /\ lastEv' = [kind |-> "copyRestore"]
    /\ UNCHANGED <<phase, staticVars, modal, utilVars, env, poll, pollVars, acts, exp, themeVars, listeners,
                   notif, formVars, searchVars>>

\* trackProduct(productId); "" stands for a missing id
TrackProduct(productId) ==
    /\ phase = "ready"
    /\ acts.started < MaxActions
    /\ acts' = IF productId = "" THEN [acts EXCEPT !.started = @ + 1]
               ELSE Request(acts, [kind |-> "track"])
    /\ lastEv' = [kind |-> "trackProduct", productId |-> productId]
    /\ UNCHANGED <<phase, staticVars, modal, utilVars, env, poll, pollVars, clip, exp, themeVars, listeners,
                   notif, formVars, searchVars>>

\* the i-th request of trackProduct is answered with data, or rejected
TrackSettles(i, ok, data) ==
    /\ phase = "ready"
    /\ i \in 1..Len(acts.requests)
    /\ acts.requests[i].kind = "track"
    /\ LET s0 == [product |-> product, notif |-> notif]
           s  == IF ok THEN TrackResolved(s0, data) ELSE TrackRejected(s0)
       IN  /\ product' = s.product
           /\ notif' = s.notif
           /\ lastEv' = Settled("track",
                                IF ~ok THEN "rejected"
                                ELSE IF data.success THEN "success" ELSE "no success",
                                s.notif, clip)
    /\ acts' = [acts EXCEPT !.requests = RemoveAt(@, i)]
    /\ UNCHANGED <<phase, staticVars, modal, utilVars, env, poll, dash, clip, exp, themeVars, listeners,
                   formVars, searchVars>>

\* verifyBlockchainRecord(recordId); "" stands for a missing id
VerifyBlockchainRecord(recordId) ==
    /\ phase = "ready"
    /\ acts.started < MaxActions
    /\ acts' = IF recordId = "" THEN [acts EXCEPT !.started = @ + 1]
               ELSE Request(acts, [kind |-> "verify"])
    /\ lastEv' = [kind |-> "verifyBlockchainRecord", recordId |-> recordId]
    /\ UNCHANGED <<phase, staticVars, modal, utilVars, env, poll, pollVars, clip, exp, themeVars, listeners,
                   notif, formVars, searchVars>>

\* the i-th verification request settles: {verified: true}, {verified: false} or rejected
VerifySettles(i, outcome) ==
    /\ phase = "ready"
    /\ i \in 1..Len(acts.requests)
    /\ acts.requests[i].kind = "verify"
    /\ notif' = VerifySettled(notif, outcome)
    /\ lastEv' = Settled("verify", outcome, VerifySettled(notif, outcome), clip)
    /\ acts' = [acts EXCEPT !.requests = RemoveAt(@, i)]
    /\ UNCHANGED <<phase, staticVars, modal, utilVars, env, poll, pollVars, clip, exp, themeVars, listeners,
                   formVars, searchVars>>

\* fillLocationFields(): getCurrentLocation with the callback that fills the fields
FillLocationFields ==
    /\ phase = "ready"
    /\ acts.started < MaxActions
    /\ IF "geolocation" \in env.apis
       THEN /\ acts' = Request(acts, [kind |-> "position"])
            /\ lastEv' = [kind |-> "getCurrentPosition"]
            /\ notif' = notif
       ELSE LET n1 == showNotification(notif, "Geolocation is not supported by this browser",
                                       "warning", 5000)
            IN  /\ acts' = [acts EXCEPT !.started = @ + 1]
                /\ notif' = n1
                /\ lastEv' = Settled("location", "unsupported", n1, clip)
    /\ UNCHANGED <<phase, staticVars, modal, utilVars, env, poll, pollVars, clip, exp, themeVars, listeners,
                   formVars, searchVars>>

\* getCurrentPosition of the i-th request calls back: with a position, or
\* with an error
PositionSettles(i, ok, location) ==
    /\ phase = "ready"
    /\ i \in 1..Len(acts.requests)
    /\ acts.requests[i].kind = "position"
    /\ LET a0 == [acts EXCEPT !.requests = RemoveAt(@, i)]
           s  == IF ok THEN FillLocation([acts |-> a0, notif |-> notif], location)
                 ELSE [acts |-> a0,
                       notif |-> showNotification(notif, "Unable to get your location",
                                                  "warning", 5000)]
       IN  /\ acts' = s.acts
           /\ notif' = s.notif
           /\ lastEv' = Settled("location", IF ok THEN "position" ELSE "error", s.notif, clip)
    /\ UNCHANGED <<phase, staticVars, modal, utilVars, env, poll, pollVars, clip, exp, themeVars, listeners,
                   formVars, searchVars>>

\* the i-th request to /api/advanced-search settles: with n results, or
\* rejected (n = -1)
AdvancedSearchSettles(i, n) ==
    /\ phase = "ready"
    /\ i \in 1..Len(advRequests)
    /\ advRequests' = RemoveAt(advRequests, i)
    /\ LET n1 == IF n >= 0 THEN showNotification(notif, FoundMessage(n), "info", 5000)
                 ELSE showNotification(notif, "Search failed", "danger", 5000)
       IN  /\ notif' = n1
           /\ lastEv' = Settled("advanced search", IF n >= 0 THEN "resolved" ELSE "rejected",
                                n1, clip) @@ [count |-> n]
    /\ results' = IF n >= 0 THEN displaySearchResults(results, n, <<>>) ELSE results
    /\ UNCHANGED <<phase, staticVars, modal, utilVars, bgVars, themeVars, listeners, value, invalid, valid,
                   errs, button, now, search, searchReqs, searchLog>>

\* a call of exportToCSV (exportData with format 'csv') on the array
ExportToCSV ==
    /\ phase = "ready"
    /\ exp.calls < MaxExports
    /\ exp' = [exportToCSV(exp) EXCEPT !.calls = @ + 1]
    /\ lastEv' = [kind |-> "exportToCSV"]
    /\ UNCHANGED <<phase, staticVars, modal, utilVars, env, poll, pollVars, acts, clip, themeVars, listeners,
                   notif, formVars, searchVars>>

\* a click on a [data-bs-toggle="modal"] trigger
ModalTriggerClick(t) ==
    /\ phase = "ready"
    /\ ModalLoads(t) => modal.nextId <= MaxModalLoads
    /\ modal' = IF ModalLoads(t) THEN loadModalContent(modal, t.url) ELSE modal
    /\ lastEv' = [kind |-> "modalClick", trigger |-> t, before |-> modal,
                  threw |-> ModalThrows(t)]
    /\ UNCHANGED <<phase, staticVars, utilVars, bgVars, themeVars, listeners, notif, formVars, searchVars>>

\* the content request i settles: resolved with html, or rejected
ModalContentSettles(i, ok, html) ==
    /\ i \in 1..Len(modal.requests)
    /\ modal' = ModalSettled(modal, i, ok, html)
    /\ lastEv' = [kind |-> "modalSettled", id |-> modal.requests[i].id, ok |-> ok,
                  html |-> html]
    /\ UNCHANGED <<phase, staticVars, utilVars, bgVars, themeVars, listeners, notif, formVars, searchVars>>

\* the beforeunload listener runs; the page may stay (a cancelled
\* navigation, a download), so the remaining timers keep running
BeforeUnload ==
    /\ phase = "ready"
    /\ poll' = ClearRefreshInterval(poll)
    /\ notif' = ClearNotificationTimeout(notif)
    /\ lastEv' = [kind |-> "beforeunload"]
    /\ UNCHANGED <<phase, staticVars, modal, utilVars, env, pollVars, actionVars, themeVars, listeners,
                   formVars, searchVars>>

(***************************************************************************)
(* Utility function events                                                 *)
(***************************************************************************)
\* everything but thr and deb
pageVars == <<phase, staticVars, modal, bgVars, themeVars, listeners, notif, lastEv,
              formVars, searchVars>>

\* throttle(func, limit) is called
MakeThrottle(limit) ==
    /\ thr.limit = 0
    /\ thr' = throttle(thr, limit)
    /\ UNCHANGED <<pageVars, deb>>

\* the throttled function is called; func does one of FuncOutcomes
ThrottledCall(outcome) ==
    /\ thr.limit # 0
    /\ Len(thr.calls) < MaxCalls
    /\ thr' = throttled(thr, outcome)
    /\ UNCHANGED <<pageVars, deb>>

\* the oldest timeout set by the throttled function runs (equal delays run
\* in the order they were set)
ThrottleTimerFires ==
    /\ thr.timers # <<>>
    /\ Head(thr.timers) <= thr.now
    /\ thr' = throttleReset(thr)
    /\ UNCHANGED <<pageVars, deb>>

\* 1 ms passes; a timer that is due may still be waiting for the event loop
ThrottleTick ==
    /\ thr.limit # 0
    /\ thr.now < MaxTicks
    /\ thr' = [thr EXCEPT !.now = @ + 1]
    /\ UNCHANGED <<pageVars, deb>>

\* debounce(func, wait) is called
MakeDebounce(wait) ==
    /\ deb.wait = 0
    /\ deb' = debounce(deb, wait)
    /\ UNCHANGED <<pageVars, thr>>

\* the debounced function is called with args
DebouncedCall(args) ==
    /\ deb.wait # 0
    /\ Len(deb.calls) < MaxCalls
    /\ deb' = executedFunction(deb, args)
    /\ UNCHANGED <<pageVars, thr>>

\* the timeout t set by the debounced function runs
DebounceTimerFires(t) ==
    /\ t \in deb.timers
    /\ t.deadline <= deb.now
    /\ deb' = later(deb, t)
    /\ UNCHANGED <<pageVars, thr>>

\* 1 ms passes; a timer that is due may still be waiting for the event loop
DebounceTick ==
    /\ deb.wait # 0
    /\ deb.now < MaxTicks
    /\ deb' = [deb EXCEPT !.now = @ + 1]
    /\ UNCHANGED <<pageVars, thr>>

(***************************************************************************)
(* Specifications                                                          *)
(***************************************************************************)
Next ==
    \/ DOMContentLoaded
    \/ ThemeToggleClick
    \/ InitializeThemeToggle
    \/ \E m \in Messages, ty \in NotifTypes, du \in Durations : Notify(m, ty, du)
    \/ \E t \in notif.timers : NotificationTimerFires(t)
    \/ \E i \in 1..Len(notif.banners) : CloseClick(i)

Spec == Init /\ [][Next]_vars

NextForm ==
    \/ DOMContentLoaded
    \/ \E f \in Fields : Blur(f)
    \/ \E f \in Fields : \E v \in ValuesOf(form.fields[f].type) : Input(f, v)
    \/ Submit
    \/ RemoveLoadingState

SpecForm == InitForm /\ [][NextForm]_vars

NextSearch ==
    \/ DOMContentLoaded
    \/ \E v \in SearchValues : SearchInput(v)
    \/ \E t \in search.timers : DebounceFires(t)
    \/ Tick
    \/ \E i \in 1..Len(searchReqs), n \in {-1, 0, 1} : SearchSettles(i, n)

SpecSearch == InitSearch /\ [][NextSearch]_vars

ExportedPolls == {"refreshDashboardData", "updateProductStatus"}

NextPolling ==
    \/ DOMContentLoaded
    \/ \E t \in poll.intervals : IntervalFires(t)
    \/ \E fn \in ExportedPolls : ExportedPoll(fn)
    \/ \E i \in 1..Len(poll.requests) : PollRejected(i)
    \/ \E i \in 1..Len(poll.requests), data \in StatPatches : StatsArrive(i, data)
    \/ \E i \in 1..Len(poll.requests), n \in {0, 2} : ActivitiesArrive(i, n)
    \/ \E i \in 1..Len(poll.requests), alerts \in SeqsUpTo(Alerts, MaxAlerts) :
          FraudAlertsArrive(i, alerts)
    \/ \E i \in 1..Len(poll.requests), data \in Snapshots : ProductStatusArrives(i, data)

SpecPolling == InitPolling /\ [][NextPolling]_vars

NextTween ==
    \/ DOMContentLoaded
    \/ \E t \in poll.intervals : IntervalFires(t)
    \/ \E i \in 1..Len(poll.requests), data \in StatPatches : StatsArrive(i, data)
    \/ \E i \in 1..Len(dash.tweens) : TweenTick(i)

SpecTween == InitTween /\ [][NextTween]_vars

NextCopy ==
    \/ DOMContentLoaded
    \/ \E b \in BOOLEAN, exec \in ExecOutcomes : CopyClick(b, exec)
    \/ \E i \in 1..Len(acts.requests), ok \in BOOLEAN, exec \in ExecOutcomes :
          ClipboardSettles(i, ok, exec)
    \/ \E t \in clip.timers : CopyFeedbackTimerFires(t)

SpecCopy == InitActions /\ [][NextCopy]_vars

NextActions ==
    \/ NextCopy
    \/ \E id \in {"", "42"} : TrackProduct(id)
    \/ \E i \in 1..Len(acts.requests), ok \in BOOLEAN, data \in TrackPayloads :
          TrackSettles(i, ok, data)
    \/ \E id \in {"", "7"} : VerifyBlockchainRecord(id)
    \/ \E i \in 1..Len(acts.requests), o \in {"verified", "unverified", "rejected"} :
          VerifySettles(i, o)
    \/ FillLocationFields
    \/ \E i \in 1..Len(acts.requests), ok \in BOOLEAN, l \in Positions :
          PositionSettles(i, ok, l)
    \/ Submit
    \/ \E i \in 1..Len(advRequests), n \in {-1, 0, 2} : AdvancedSearchSettles(i, n)

SpecActions == InitActions /\ [][NextActions]_vars

NextExport ==
    \/ DOMContentLoaded
    \/ ExportToCSV
    \/ \E format \in Formats : ExportData(format)

SpecExport == InitExport /\ [][NextExport]_vars

NextAdvanced ==
    \/ DOMContentLoaded
    \/ \E f \in Fields : \E v \in ValuesOf(form.fields[f].type) : Input(f, v)
    \/ Submit
    \/ \E i \in 1..Len(advRequests), n \in {-1, 0, 1, 2} : AdvancedSearchSettles(i, n)

SpecAdvanced == InitAdvanced /\ [][NextAdvanced]_vars

NextModal ==
    \/ DOMContentLoaded
    \/ \E t \in Triggers : ModalTriggerClick(t)
    \/ \E i \in 1..Len(modal.requests), ok \in BOOLEAN, html \in ModalHtml :
          ModalContentSettles(i, ok, html)

SpecModal == Init /\ [][NextModal]_vars

\* two different queries that pass the length test
RaceValues == {<<"a", "b">>, <<"b", "a">>}

NextRace ==
    \/ DOMContentLoaded
    \/ \E v \in RaceValues : SearchInput(v)
    \/ \E t \in search.timers : DebounceFires(t)
    \/ Tick
    \/ \E i \in 1..Len(searchReqs), n \in {-1, 0, 1} : SearchSettles(i, n)

SpecRace == InitSearch /\ [][NextRace]_vars

NextTimers ==
    \/ DOMContentLoaded
    \/ \E t \in poll.intervals : IntervalFires(t)
    \/ \E i \in 1..Len(poll.requests) : PollRejected(i)
    \/ \E i \in 1..Len(poll.requests), alerts \in SeqsUpTo(Alerts, MaxAlerts) :
          FraudAlertsArrive(i, alerts)
    \/ \E t \in notif.timers : NotificationTimerFires(t)
    \/ BeforeUnload

SpecTimers == InitTimers /\ [][NextTimers]_vars

NextThrottle ==
    \/ \E limit \in Delays : MakeThrottle(limit)
    \/ \E outcome \in FuncOutcomes : ThrottledCall(outcome)
    \/ ThrottleTimerFires
    \/ ThrottleTick

SpecThrottle == InitUtil /\ [][NextThrottle]_vars

NextDebounce ==
    \/ \E wait \in Delays : MakeDebounce(wait)
    \/ \E args \in ArgValues : DebouncedCall(args)
    \/ \E t \in deb.timers : DebounceTimerFires(t)
    \/ DebounceTick

SpecDebounce == InitUtil /\ [][NextDebounce]_vars

(***************************************************************************)
(* Properties                                                              *)
(***************************************************************************)
AllFalse(rs) == \A k \in 1..Len(rs) : rs[k] = FALSE

AllTrue(rs) == \A k \in 1..Len(rs) : rs[k] = TRUE

\* the submit event just handled was blocked: every validateForm call
\* returned false and the default action was prevented
Blocked == lastEv.returns # <<>> /\ AllFalse(lastEv.returns) /\ lastEv.prevented

\* the .invalid-feedback nodes beside field f
Feedback(f) == errs[ParentOf(f)]

\* C1: at most one floating notification is in the document at any time, and
\* right after showNotification(m, ...) returns the only banner shows m.
C1_SingleBanner ==
    /\ Len(notif.banners) <= 1
    /\ lastEv.kind = "notify" =>
          /\ Len(notif.banners) = 1
          /\ notif.banners[1].message = lastEv.message

\* a second notification has just replaced the first one
C1_Witness ==
    /\ lastEv.kind = "notify"
    /\ notif.nextId = 3
    /\ Len(notif.banners) = 1
    /\ notif.banners[1].id = 2
    /\ notif.timers = {[id |-> 2, banner |-> 2, duration |-> 5000]}

\* the queries of the debounced runs that hold at least 2 trimmed characters
RECURSIVE ExpectedFetches(_)
ExpectedFetches(log) ==
    IF log = <<>> THEN <<>>
    ELSE IF Head(log).kind = "run" /\ Len(Trim(Head(log).value)) >= 2
    THEN <<Trim(Head(log).value)>> \o ExpectedFetches(Tail(log))
    ELSE ExpectedFetches(Tail(log))

\* C2: every input event re-arms the single debounce timer; the debounced
\* callback runs once per burst, no sooner than 300 ms after the input event
\* that armed it and before any later input event, and issues one fetch, for
\* the trimmed value then held, iff that value has at least 2 characters.
C2_DebounceNoSooner ==
    /\ Cardinality(search.timers) <= 1
    /\ \A k \in 1..Len(searchLog) :
          searchLog[k].kind = "run" =>
             /\ k > 1
             /\ searchLog[k - 1].kind = "input"
             /\ searchLog[k].at >= searchLog[k - 1].at + DebounceMs
             /\ searchLog[k].value = searchLog[k - 1].value
    /\ (searchLog # <<>> /\ Last(searchLog).kind = "input") =>
          \E t \in search.timers : t.deadline = Last(searchLog).at + DebounceMs
    /\ (searchLog # <<>> /\ Last(searchLog).kind = "run") => search.timers = {}
    /\ [k \in 1..Len(searchReqs) |-> searchReqs[k].q] = ExpectedFetches(searchLog)

\* C2 as stated: the debounced callback runs exactly 300 ms after the last
\* input event of its burst, so that input events of one burst are at most
\* 300 ms apart and time never passes the deadline of a pending timer
C2_Debounce ==
    /\ Cardinality(search.timers) <= 1
    /\ \A k \in 1..Len(searchLog) :
          searchLog[k].kind = "run" =>
             /\ k > 1
             /\ searchLog[k - 1].kind = "input"
             /\ searchLog[k].at = searchLog[k - 1].at + DebounceMs
             /\ searchLog[k].value = searchLog[k - 1].value
    /\ \A k \in 1..Len(searchLog) - 1 :
          (searchLog[k].kind = "input" /\ searchLog[k + 1].kind = "input")
             => searchLog[k + 1].at - searchLog[k].at <= DebounceMs
    /\ (searchLog # <<>> /\ Last(searchLog).kind = "input") =>
          /\ now <= Last(searchLog).at + DebounceMs
          /\ \E t \in search.timers : t.deadline = Last(searchLog).at + DebounceMs
    /\ (searchLog # <<>> /\ Last(searchLog).kind = "run") => search.timers = {}
    /\ [k \in 1..Len(searchReqs) |-> searchReqs[k].q] = ExpectedFetches(searchLog)

\* 'a' then 'ab' within 300 ms: one run, one fetch, for 'ab'
C2_Witness ==
    /\ Len(searchLog) = 3
    /\ searchLog[1].kind = "input" /\ searchLog[1].value = <<"a">>
    /\ searchLog[2].kind = "input" /\ searchLog[2].value = <<"a", "b">>
    /\ searchLog[2].at - searchLog[1].at < DebounceMs
    /\ searchLog[2].at > searchLog[1].at
    /\ searchLog[3].kind = "run"
    /\ Len(searchReqs) = 1
    /\ searchReqs[1].q = <<"a", "b">>

\* C3: after a submit event, every required field whose trimmed value is
\* empty has blocked the submission, is marked invalid and has exactly one
\* error message node beside it, whatever the layout.
C3_RequiredEmptyOneMessage ==
    lastEv.kind = "submit" =>
       \A f \in Fields :
          (form.fields[f].required /\ Trim(value[f]) = <<>>) =>
             /\ Blocked
             /\ f \in invalid
             /\ Len(Feedback(f)) = 1

\* C4: a submit event for which validateForm returned false issues no
\* request and does not put the button into the processing state.
C4_NoRequestOnFailure ==
    (lastEv.kind = "submit" /\ \E k \in 1..Len(lastEv.returns) : ~lastEv.returns[k]) =>
       /\ lastEv.requests = 0
       /\ ~button.disabled
       /\ button.innerHTML = lastEv.label

\* C5: after a submit event on a form that validates, the button is disabled
\* and dataset.originalText is the label the button had before the event, so
\* that removeLoadingState restores that label and enables the button.
C5_OriginalLabelStored ==
    (lastEv.kind = "submit" /\ form.hasButton /\ AllTrue(lastEv.returns)) =>
       /\ button.disabled
       /\ button.originalText = lastEv.label
       /\ removeLoadingState(button).innerHTML = lastEv.label
       /\ ~removeLoadingState(button).disabled

HasPasswordPair == QueryByName("password") # 0 /\ QueryByName("confirm_password") # 0

PasswordsDiffer ==
    HasPasswordPair /\ value[QueryByName("password")] # value[QueryByName("confirm_password")]

\* C6: after a submit event on a form whose password and confirm_password
\* values differ, the submission was blocked and the confirmation field is
\* marked invalid with the message 'Passwords do not match'.
C6_MismatchBlocks ==
    (lastEv.kind = "submit" /\ PasswordsDiffer) =>
       /\ Blocked
       /\ QueryByName("confirm_password") \in invalid
       /\ Feedback(QueryByName("confirm_password")) # <<>>
       /\ Last(Feedback(QueryByName("confirm_password"))) = MismatchMsg

\* both fields required and filled in, the two values different
C6_Witness ==
    /\ lastEv.kind = "submit"
    /\ PasswordsDiffer
    /\ \A f \in Fields : form.fields[f].required /\ Trim(value[f]) # <<>>
    /\ Feedback(QueryByName("confirm_password")) = <<MismatchMsg>>

\* C7: a field that is marked invalid always has exactly one error message
\* node beside it.
C7_NeverStacks ==
    \A f \in invalid : Len(Feedback(f)) = 1

\* C8: once initialized, body[data-theme] is the persisted preference (light
\* when nothing is stored), and the preference after two toggles is the one
\* before them.
C8_ThemeRoundTrip ==
    phase # "loading" =>
       /\ bodyTheme = (IF stored = "none" THEN "light" ELSE stored)
       /\ Last(prefLog) = bodyTheme
       /\ \A i \in 1..Len(prefLog) - 2 : prefLog[i + 2] = prefLog[i]

\* nothing stored, then two toggles
C8_Witness ==
    /\ prefLog = <<"light", "dark", "light">>
    /\ stored = "light"
    /\ bodyTheme = "light"

Count(s, c) == Cardinality({k \in 1..Len(s) : s[k] = c})

\* localpart@domain.tld: no white space, one '@' after a non-empty local
\* part, and a '.' inside what follows the '@'
HasEmailShape(s) ==
    /\ Count(s, " ") = 0
    /\ Count(s, "@") = 1
    /\ \E i \in 2..Len(s) :
          /\ s[i] = "@"
          /\ \E j \in i + 2..Len(s) - 1 : s[j] = "."

\* C9: after a submit event, an email field holding a value of the shape
\* localpart@domain.tld is not marked invalid, and one holding any other
\* (non-empty) value has blocked the submission and is marked invalid.
C9_EmailChecked ==
    lastEv.kind = "submit" =>
       \A f \in Fields :
          (form.fields[f].type = "email" /\ Trim(value[f]) # <<>>) =>
             IF HasEmailShape(value[f])
             THEN f \notin invalid
             ELSE Blocked /\ f \in invalid

\* C10: after a submit event, a number field holding a number below its
\* declared min has blocked the submission with a message that contains the
\* min, one above its max likewise with the max, and one within the bounds
\* is not marked invalid.
C10_NumberRange ==
    lastEv.kind = "submit" =>
       \A f \in Fields :
          (form.fields[f].type = "number" /\ value[f] # <<>>) =>
             LET fld == form.fields[f]
                 v   == parseFloat(value[f])
                 low  == ~isNaN(parseFloat(fld.min)) /\ Less(v, parseFloat(fld.min))
                 high == ~isNaN(parseFloat(fld.max)) /\ Greater(v, parseFloat(fld.max))
             IN  /\ low => /\ Blocked
                           /\ f \in invalid
                           /\ \E k \in 1..Len(Feedback(f)) : Feedback(f)[k].arg = fld.min
                 /\ high => /\ Blocked
                            /\ f \in invalid
                            /\ \E k \in 1..Len(Feedback(f)) : Feedback(f)[k].arg = fld.max
                 /\ (~low /\ ~high) => f \notin invalid


\* C12: a polling request that is rejected shows no notification, changes
\* none of the polled nodes, starts no request and leaves every interval
\* timer running, so the refresher that sent it fires again at its next tick
C12_RejectedPollIsSilent ==
    [][lastEv'.kind = "pollRejected" =>
          /\ notif' = notif
          /\ dash' = dash
          /\ product' = product
          /\ poll'.intervals = poll.intervals
          /\ poll.called = 0 => poll'.intervals # {}
          /\ poll'.refreshInterval = poll.refreshInterval
          /\ Len(poll'.requests) = Len(poll.requests) - 1]_vars

\* an interval timer fires after one of its requests was rejected
C12_Witness == lastEv.kind = "interval" /\ poll.rejected >= 1

\* C13: a fraud-alert response shows one notification per alert of severity
\* high, of kind danger and lasting 10000 ms; without such an alert the
\* notification state stays as it was, otherwise the one banner displayed is
\* that of the last alert of severity high
C13_OnlyHighAlertsNotify ==
    lastEv.kind = "fraud" =>
        LET high == SelectSeq(lastEv.alerts, LAMBDA a : a.severity = "high")
        IN  /\ notif.nextId - lastEv.before.nextId = Len(high)
            /\ high = <<>> => notif = lastEv.before
            /\ high # <<>> =>
                  /\ Len(notif.banners) = 1
                  /\ notif.banners[1].message = Last(high).message
                  /\ notif.banners[1].type = "danger"
                  /\ notif.timers = {[id |-> notif.banners[1].id,
                                      banner |-> notif.banners[1].id,
                                      duration |-> 10000]}

\* a response with two alerts of severity high arrived while a banner was displayed
C13_Witness ==
    /\ lastEv.kind = "fraud"
    /\ Len(SelectSeq(lastEv.alerts, LAMBDA a : a.severity = "high")) >= 2
    /\ lastEv.before.banners # <<>>

\* C14: the interval timer of every tween is cleared after about 20
\* callbacks (none is still running after its 21st), and the counter shows
\* the target when the timer is cleared
C14_TweenTerminates ==
    /\ \A i \in 1..Len(dash.tweens) : dash.tweens[i].k <= TweenSteps
    /\ (lastEv.kind = "tween" /\ lastEv.cleared) => dash.counter = lastEv.target
\* C11: a user-initiated action (copy, track, advanced search, verification,
\* location lookup) whose request has settled has shown a notification,
\* whatever the outcome
C11_SettledActionNotifies == lastEv.kind = "settled" => lastEv.notified >= 1

\* C20: the fallback of a copy runs exactly when navigator.clipboard is
\* absent or writeText was rejected; a copy that has ended has shown exactly
\* one notification, the success or the failure message; no textarea of the
\* fallback stays in the document
C20_CopyEndsWithOneNotification ==
    /\ clip.textareas = 0
    /\ lastEv.kind = "writeText" => "clipboard" \in env.apis
    /\ (lastEv.kind = "settled" /\ lastEv.action = "copy") =>
          /\ lastEv.notified = 1
          /\ lastEv.fallback <=> lastEv.outcome \in {"absent", "rejected"}
          /\ lastEv.outcome = "absent" <=> "clipboard" \notin env.apis
          /\ Len(notif.banners) = 1
          /\ \/ notif.banners[1].message = "Copied to clipboard!"
                /\ notif.banners[1].type = "success"
             \/ notif.banners[1].message = "Failed to copy to clipboard"
                /\ notif.banners[1].type = "danger"

\* writeText was rejected, the fallback ran and execCommand threw
C20_Witness ==
    /\ lastEv.kind = "settled"
    /\ lastEv.action = "copy"
    /\ lastEv.outcome = "rejected"
    /\ lastEv.fallback
    /\ notif.banners[1].type = "danger"
\* C15: a displayed banner has its auto-dismiss timer pending, armed with
\* the duration it was shown with; the timer that fires removes its own
\* banner and no other, and changes nothing when that banner was closed
\* before; at most one auto-dismiss timer is pending
C15_AutoDismiss ==
    /\ Cardinality(notif.timers) <= 1
    /\ \A k \in 1..Len(notif.banners) :
          \E t \in notif.timers : t.banner = notif.banners[k].id
    /\ lastEv.kind = "notify" =>
          \E t \in notif.timers :
             /\ t.duration = lastEv.duration
             /\ t.banner = Last(notif.banners).id
             /\ Last(notif.banners).message = lastEv.message
    /\ lastEv.kind = "dismiss" =>
          /\ notif.banners = SelectSeq(lastEv.before, LAMBDA b : b.id # lastEv.timer.banner)
          /\ (\A k \in 1..Len(lastEv.before) : lastEv.before[k].id # lastEv.timer.banner)
                => notif.banners = lastEv.before
    /\ lastEv.kind = "close" =>
          \A k \in 1..Len(notif.banners) : notif.banners[k].id # lastEv.banner

\* the timer of a banner that was closed by hand has fired
C15_Witness ==
    /\ lastEv.kind = "dismiss"
    /\ lastEv.before = <<>>
    /\ notif.banners = <<>>

\* C17: a theme toggle flips the applied theme, stores the new theme and
\* leaves exactly one banner, the message naming the new theme, with a
\* 2000 ms auto-dismiss timer
C17_ToggleNotifies ==
    (lastEv.kind = "notify" /\ lastEv.toggled) =>
        /\ lastEv.from \in {"light", "dark"}
        /\ bodyTheme = (IF lastEv.from = "light" THEN "dark" ELSE "light")
        /\ stored = bodyTheme
        /\ Len(notif.banners) = 1
        /\ notif.banners[1].message =
              (IF bodyTheme = "dark" THEN "Dark theme activated" ELSE "Light theme activated")
        /\ notif.timers = {[id |-> notif.banners[1].id, banner |-> notif.banners[1].id,
                            duration |-> 2000]}

\* a toggle to dark replaced the banner of an earlier notification
C17_Witness ==
    /\ lastEv.kind = "notify"
    /\ lastEv.toggled
    /\ bodyTheme = "dark"
    /\ notif.banners[1].id >= 2
\* C16: when the debounced callback has run with a trimmed value of fewer
\* than 2 characters, it issued no search request and #search-results is empty
C16_ShortQueryClears ==
    (lastEv.kind = "debounce" /\ Len(Trim(Last(searchLog).value)) < 2) =>
        /\ Len(searchReqs) = lastEv.before
        /\ page.hasResults => (results.html = "" /\ results.n = 0)

\* the callback ran for " a " after an earlier search had filled the container
C16_Witness ==
    /\ lastEv.kind = "debounce"
    /\ Last(searchLog).value = <<" ", "a", " ">>
    /\ page.hasResults
    /\ \E k \in 1..Len(searchReqs) : searchReqs[k].state = "settled"
\* the pieces of s between the occurrences of sep
RECURSIVE Split(_, _)
Split(s, sep) ==
    IF \A k \in 1..Len(s) : s[k] # sep THEN <<s>>
    ELSE LET k == CHOOSE j \in 1..Len(s) : s[j] = sep /\ \A h \in 1..(j - 1) : s[h] # sep
         IN  <<SubSeq(s, 1, k - 1)>> \o Split(SubSeq(s, k + 1, Len(s)), sep)

\* C18: a product status update with a status sets the badge class to
\* 'badge bg-' followed by success, warning, info or danger for created,
\* in_transit, delivered or expired, and by secondary for every other status
C18_StatusColour ==
    (lastEv.kind = "productStatus" /\ lastEv.data.status # "" /\ "status" \in env.nodes) =>
        product.className =
            <<"badge bg-",
              CASE lastEv.data.status = "created"    -> "success"
                [] lastEv.data.status = "in_transit" -> "warning"
                [] lastEv.data.status = "delivered"  -> "info"
                [] lastEv.data.status = "expired"    -> "danger"
                [] OTHER                             -> "secondary">>

\* C19: the export of n >= 1 uniform rows downloads n + 1 lines, the keys of
\* the first row joined by commas and then the values of each row joined by
\* commas; a missing or empty array downloads nothing
C19_CsvLines ==
    (lastEv.kind = "exportToCSV" \/ (lastEv.kind = "exportData" /\ lastEv.format = "csv")) =>
        IF exp.data.missing \/ exp.data.rows = <<>> THEN exp.downloads = <<>>
        ELSE /\ Len(exp.downloads) = 1
             /\ LET lines == Split(exp.downloads[1].content, "\n")
                     rows  == exp.data.rows
                 IN  /\ Len(lines) = Len(rows) + 1
                     /\ lines[1] = Join(ObjectKeys(rows[1]), ",")
                     /\ \A i \in 1..Len(rows) :
                            lines[i + 1] = JoinValues(ObjectValues(rows[i]), ",")
\* C21: a submit of the advanced-search form issues one request, whose
\* parameters are the fields with a non-empty trimmed value, and never
\* navigates; a response of n results fills the result list and shows
\* 'Found n results', for n = 0 too
C21_AdvancedSearch ==
    /\ (lastEv.kind = "submit" /\ form.id = "advanced-search-form") =>
          /\ lastEv.requests = 1
          /\ lastEv.prevented
          /\ phase = "ready"
          /\ advRequests # <<>>
          /\ Last(advRequests) =
                LET kept == SelectSeq(FieldOrder, LAMBDA f : Trim(value[f]) # <<>>)
                IN  [k \in 1..Len(kept) |-> <<form.fields[kept[k]].name, value[kept[k]]>>]
    /\ (lastEv.kind = "settled" /\ lastEv.action = "advanced search"
           /\ lastEv.outcome = "resolved") =>
          /\ Len(notif.banners) = 1
          /\ notif.banners[1].message =
                (CASE lastEv.count = 0 -> "Found 0 results"
                   [] lastEv.count = 1 -> "Found 1 results"
                   [] lastEv.count = 2 -> "Found 2 results")
          /\ page.hasResults =>
                /\ results.n = lastEv.count
                /\ results.html = (IF lastEv.count = 0 THEN "No results found." ELSE "list-group")

\* a response of 0 results to a request that carried a parameter
C21_Witness ==
    /\ lastEv.kind = "settled"
    /\ lastEv.action = "advanced search"
    /\ lastEv.outcome = "resolved"
    /\ lastEv.count = 0
    /\ page.hasResults
    /\ \E f \in Fields : Trim(value[f]) # <<>>

\* C29: once the request of a validated advanced-search submit has
\* settled, the submit button is enabled again and shows its original label
C29_ButtonRestored ==
    (lastEv.kind = "settled" /\ lastEv.action = "advanced search" /\ advRequests = <<>>) =>
        /\ ~button.disabled
        /\ button.innerHTML = ButtonLabel
\* C22: a trigger with a data URL puts the loading placeholder into the modal
\* body, which stays there while the content request is in flight; the
\* settled request leaves the fetched HTML, or the error block, in the body;
\* a trigger without a data URL starts no request and leaves the body alone
C22_ModalBody ==
    /\ (lastEv.kind = "modalClick" /\ ModalLoads(lastEv.trigger)) =>
          /\ modal.body = ModalPlaceholder
          /\ Len(modal.requests) = Len(lastEv.before.requests) + 1
    /\ (lastEv.kind = "modalClick" /\ lastEv.trigger.url = "") =>
          modal = lastEv.before
    /\ modal.requests # <<>> => modal.body = ModalPlaceholder
    /\ lastEv.kind = "modalSettled" =>
          /\ modal.body = (IF lastEv.ok THEN lastEv.html ELSE ModalError)
          /\ modal.body # ModalPlaceholder
\* C22, amended: every loading click writes the placeholder and every
\* settled request writes its own HTML or the error block, whatever else is
\* in flight; the body changes at no other moment, and a click that does
\* not load changes nothing
C22_ModalBodyLastWrite ==
    /\ [](/\ (lastEv.kind = "modalClick" /\ ModalLoads(lastEv.trigger)) =>
               /\ modal.body = ModalPlaceholder
               /\ Len(modal.requests) = Len(lastEv.before.requests) + 1
          /\ (lastEv.kind = "modalClick" /\ ~ModalLoads(lastEv.trigger)) =>
               modal = lastEv.before
          /\ lastEv.kind = "modalSettled" =>
               /\ modal.body = (IF lastEv.ok THEN lastEv.html ELSE ModalError)
               /\ modal.body # ModalPlaceholder)
    /\ [][modal'.body # modal.body =>
            \/ lastEv'.kind = "modalClick" /\ ModalLoads(lastEv'.trigger)
            \/ lastEv'.kind = "modalSettled"]_vars

\* the newer of two overlapping content requests has settled, the older one
\* is still in flight
C22_Witness ==
    /\ lastEv.kind = "modalSettled"
    /\ modal.requests # <<>>
    /\ modal.requests[1].id < lastEv.id
    /\ modal.body # ModalPlaceholder
\* C23: no step takes a pending search request away other than its own
\* response, and a response that arrives is displayed whatever its rank
\* among the requests: the container holds the results of the response that
\* arrived last
C23_LastArrivalWins ==
    /\ [](lastEv.kind = "searchSettles" /\ lastEv.n >= 0 /\ page.hasResults =>
             /\ results.of = lastEv.q
             /\ results.n = lastEv.n)
    /\ [][/\ Len(searchReqs') >= Len(searchReqs)
          /\ \A i \in 1..Len(searchReqs) :
                /\ searchReqs'[i].q = searchReqs[i].q
                /\ searchReqs'[i].state # searchReqs[i].state =>
                      /\ lastEv'.kind = "searchSettles"
                      /\ lastEv'.q = searchReqs[i].q]_vars

\* both of two overlapping requests have been answered, the earlier one
\* last: the container shows results that are not those of the latest query
C23_Witness ==
    /\ Len(searchReqs) = 2
    /\ searchReqs[1].q # searchReqs[2].q
    /\ \A i \in 1..2 : searchReqs[i].state = "settled"
    /\ lastEv.kind = "searchSettles"
    /\ page.hasResults
    /\ results.of = searchReqs[1].q
    /\ results.of # Trim(search.value)
\* C24: once the tween of the update applied last has ended, the counter
\* shows the target of that update and keeps showing it
C24_LastWriteWins ==
    (dash.applied # <<>> /\ \A i \in 1..Len(dash.tweens) : dash.tweens[i].n # Len(dash.applied))
        => dash.counter = Last(dash.applied)
\* C25: a product snapshot whose environmental_conditions carry a
\* temperature (a humidity) leaves that number followed by '°C' ('%') in the
\* node, for zero, negative and positive numbers
C25_ConditionsShown ==
    LET Shown(v) == CASE v = 0  -> <<"0">>
                      [] v = 21 -> <<"2", "1">>
                      [] v = 40 -> <<"4", "0">>
                      [] v = -3 -> <<"-", "3">>
    IN  (lastEv.kind = "productStatus" /\ lastEv.data.environmental_conditions # <<>>) =>
            LET ec == lastEv.data.environmental_conditions[1]
            IN  /\ (ec.temperature # <<>> /\ "temp" \in env.nodes) =>
                      product.temp = Shown(ec.temperature[1]) \o <<"°", "C">>
                /\ (ec.humidity # <<>> /\ "humidity" \in env.nodes) =>
                      product.humidity = Shown(ec.humidity[1]) \o <<"%">>
\* the number of requests to url among the polling requests p has in flight
Pending(p, url) == Len(SelectSeq(p.requests, LAMBDA r : r = url))

\* C26: a dashboard refresh tick issues the quick_stats and the
\* recent_activities request and touches no node; the statistics response
\* starts counter tweens and leaves the timeline and the pending activities
\* requests alone; the activities response replaces the timeline and leaves
\* the counter, its tweens and the pending statistics requests alone; a
\* rejected request changes no node and no other request
C26_IndependentRefresh ==
        [][/\ (lastEv'.kind \in {"interval", "exportedPoll"}
                  /\ lastEv'.fn = "refreshDashboardData") =>
                /\ poll'.requests = poll.requests \o <<"quick_stats", "recent_activities">>
                /\ dash' = dash
           /\ lastEv'.kind = "stats" =>
                /\ dash'.activities = dash.activities
                /\ Pending(poll', "recent_activities") = Pending(poll, "recent_activities")
                /\ Pending(poll', "quick_stats") = Pending(poll, "quick_stats") - 1
                /\ product' = product /\ notif' = notif
           /\ lastEv'.kind = "activities" =>
                /\ dash'.counter = dash.counter
                /\ dash'.tweens = dash.tweens
                /\ dash'.applied = dash.applied
                /\ Pending(poll', "quick_stats") = Pending(poll, "quick_stats")
                /\ Pending(poll', "recent_activities") = Pending(poll, "recent_activities") - 1
                /\ "activities" \in env.nodes =>
                      dash'.activities.n = lastEv'.n /\ dash'.activities.html # "initial"
                /\ product' = product /\ notif' = notif
           /\ lastEv'.kind = "pollRejected" =>
                /\ dash' = dash
                /\ Len(poll'.requests) = Len(poll.requests) - 1]_vars

\* the timeline was replaced although the statistics request of the same
\* tick was rejected
C26_Witness ==
    /\ lastEv.kind = "activities"
    /\ poll.fired = 1
    /\ poll.rejected = 1
    /\ poll.requests = <<>>
    /\ dash.activities.html = "timeline"
    /\ dash.applied = <<>>
\* C27: page initialization starts the dashboard refresh (30 s), the
\* fraud-alert check (60 s) and the product-status poll (60 s) exactly on the
\* pages whose path contains the marker of the refresher, and no interval
\* timer is started at any other moment: at most one per refresher
C27_TimersByPath ==
    /\ [](lastEv.kind = "load" =>
            /\ \A r \in {<<"refreshDashboardData", "/dashboard", 30000>>,
                          <<"checkFraudAlerts", "/analytics", 60000>>,
                          <<"updateProductStatus", "/products/", 60000>>} :
                  /\ Cardinality({t \in poll.intervals : t.fn = r[1]}) =
                        (IF r[2] \in env.path THEN 1 ELSE 0)
                  /\ \A t \in poll.intervals : t.fn = r[1] => t.ms = r[3]
            /\ Cardinality(poll.intervals) <= 3)
    /\ [][poll'.intervals \subseteq poll.intervals \/ lastEv'.kind = "load"]_vars

\* a path with two markers: both refreshers started, the third one not
C27_Witness ==
    /\ lastEv.kind = "load"
    /\ env.path = {"/dashboard", "/products/"}
    /\ Cardinality(poll.intervals) = 2

\* C28: the beforeunload listener leaves no interval timer of the script
\* running and no auto-dismiss timeout pending
C28_UnloadCancelsAll ==
    lastEv.kind = "beforeunload" =>
        /\ poll.intervals = {}
        /\ \A t \in notif.timers : t.id # notif.notificationTimeout
\* C30: after any sequence of blur, input and submit events no field
\* carries is-valid and is-invalid together
C30_MarkersExclusive == invalid \cap valid = {}
\* C31: a form whose submit was let through has no field that validateField
\* rejects with the value the field holds
C31_ValidatorsAgree ==
    (lastEv.kind = "submit" /\ ~lastEv.prevented) =>
        \A f \in Fields : validateField(Dom, f, value[f]).ok
\* C32: once every feedback timer of the copy button has run and no copy
\* is in flight, the button shows the content it had before the first
\* click and the success class is gone
C32_CopyButtonRestored ==
    (clip.timers = {} /\ acts.requests = <<>>) =>
        /\ clip.innerHTML = NoClip.innerHTML
        /\ ~clip.success
\* C33: the first call of a throttled function runs func; a call made less
\* than limit ms after the last run of func is dropped; a call made more
\* than limit ms after it runs func again; two runs of func are never less
\* than limit ms apart
C33_Throttle ==
    LET Ran == {i \in 1..Len(thr.calls) : thr.calls[i].ran}
        LastRunBefore(i) == CHOOSE j \in Ran : j < i /\ \A k \in Ran : k < i => k <= j
    IN  /\ thr.calls # <<>> => thr.calls[1].ran
        /\ \A i \in 2..Len(thr.calls) :
              LET gap == thr.calls[i].at - thr.calls[LastRunBefore(i)].at
              IN  /\ gap < thr.limit => ~thr.calls[i].ran
                  /\ gap > thr.limit => thr.calls[i].ran
        /\ \A i, j \in Ran : i < j => thr.calls[j].at - thr.calls[i].at >= thr.limit

\* C34: func runs only for a call that no newer call has followed, no
\* sooner than wait ms after that call and with its arguments, at most once
\* per call; a call followed by another less than wait ms later never runs
\* func; once no timer is pending, the last call has run func
C34_DebounceNoSooner ==
    /\ \A r \in 1..Len(deb.runs) :
          LET run == deb.runs[r]
          IN  /\ run.seen = run.call
              /\ run.at >= deb.calls[run.call].at + deb.wait
              /\ run.args = deb.calls[run.call].args
              /\ \A q \in 1..Len(deb.runs) : deb.runs[q].call = run.call => q = r
    /\ \A i \in 1..(Len(deb.calls) - 1) :
          deb.calls[i + 1].at - deb.calls[i].at < deb.wait =>
              \A r \in 1..Len(deb.runs) : deb.runs[r].call # i
    /\ (deb.timers = {} /\ deb.calls # <<>>) =>
          /\ deb.runs # <<>>
          /\ Last(deb.runs).call = Len(deb.calls)

\* C34 as stated: func runs only for a call that no newer call has
\* followed, exactly wait ms after that call and with its arguments; a call
\* followed by another less than wait ms later never runs func; once no
\* timer is pending, the last call has run func, once
C34_Debounce ==
    /\ \A r \in 1..Len(deb.runs) :
          LET run == deb.runs[r]
          IN  /\ run.seen = run.call
              /\ run.at = deb.calls[run.call].at + deb.wait
              /\ run.args = deb.calls[run.call].args
              /\ \A q \in 1..Len(deb.runs) : deb.runs[q].call = run.call => q = r
    /\ \A i \in 1..(Len(deb.calls) - 1) :
          deb.calls[i + 1].at - deb.calls[i].at < deb.wait =>
              \A r \in 1..Len(deb.runs) : deb.runs[r].call # i
    /\ (deb.timers = {} /\ deb.calls # <<>>) =>
          /\ deb.runs # <<>>
          /\ Last(deb.runs).call = Len(deb.calls)

\* a burst of three calls, each less than wait ms after the one before,
\* has run func once, for the last call
C34_Witness ==
    /\ Len(deb.calls) = 3
    /\ \A i \in 1..2 : deb.calls[i + 1].at - deb.calls[i].at < deb.wait
    /\ deb.calls[3].at > deb.calls[1].at
    /\ deb.calls[3].args # deb.calls[2].args
    /\ Len(deb.runs) = 1
    /\ deb.runs[1].call = 3
====
